---- MODULE Spec2Model ----
(***************************************************************************)
(* Link-resolution cache layer of the URL shortener: the cache-aside read  *)
(* path of redirect_short_url, the RedisService handle and link cache, the *)
(* detached click counter and the link CRUD handlers that refresh the      *)
(* cache.  Strings that the code transforms (slugs) are sequences of       *)
(* one-character strings; Optional values are sequences of length <= 1.    *)
(***************************************************************************)
EXTENDS Integers, Sequences, FiniteSets, Bags, TLC

\* ------------------------------------------------------------------ bounds
\* number of clock steps the model lets pass
MaxTicks == 2
\* seconds that pass in one clock step
TickStep == 1800
\* largest clicks value a row reaches
MaxClicks == 2
\* clock readings per second the sub-store specifications tell apart
Hz == 2
\* seconds the sub-store specifications let pass
MaxSeconds == 2
\* largest rate limit a caller asks for
MaxLimit == 2

\* ------------------------------------------------------- program constants
CACHE_TTL_LINK == 3600
SLUG_MIN_LENGTH == 4
SLUG_MAX_LENGTH == 20
CACHE_TTL_BLACKLIST == 86400 * 31
PASSWORD_RESET_TOKEN_EXPIRES == 3600

RESERVED_SLUGS == {
    <<"a","d","m","i","n">>, <<"a","p","i">>, <<"l","o","g","i","n">>,
    <<"l","o","g","o","u","t">>, <<"r","e","g","i","s","t","e","r">>,
    <<"s","i","g","n","u","p">>, <<"d","a","s","h","b","o","a","r","d">>,
    <<"s","e","t","t","i","n","g","s">>, <<"p","r","o","f","i","l","e">>,
    <<"a","c","c","o","u","n","t">>, <<"u","s","e","r">>, <<"u","s","e","r","s">>,
    <<"l","i","n","k">>, <<"l","i","n","k","s">>, <<"h","e","a","l","t","h">>,
    <<"s","t","a","t","u","s">>, <<"s","t","a","t","i","c">>, <<"a","s","s","e","t","s">>,
    <<"a","u","t","h">>, <<"o","a","u","t","h">>, <<"c","a","l","l","b","a","c","k">>,
    <<"r","e","s","e","t">>, <<"p","a","s","s","w","o","r","d">>, <<"v","e","r","i","f","y">>,
    <<"h","e","l","p">>, <<"s","u","p","p","o","r","t">>, <<"c","o","n","t","a","c","t">>,
    <<"a","b","o","u","t">>, <<"t","e","r","m","s">>, <<"p","r","i","v","a","c","y">>,
    <<"b","l","o","g">>, <<"d","o","c","s">>,
    <<"d","o","c","u","m","e","n","t","a","t","i","o","n">>, <<"a","p","p">>, <<"w","w","w">>,
    <<"m","a","i","l">>, <<"u","n","s","u","b","s","c","r","i","b","e">>,
    <<"p","r","e","f","e","r","e","n","c","e","s">>, <<"a","n","a","l","y","t","i","c","s">>,
    <<"s","t","a","t","s">>, <<"m","e","t","r","i","c","s">>
  }

\* --------------------------------------------------------- Optional values
None == <<>>
Some(x) == <<x>>
Val(o) == o[1]

\* ------------------------------------------------------------ str methods
UpperChars == <<"A","B","C","D","E","F","G","H","I","J","K","L","M",
                "N","O","P","Q","R","S","T","U","V","W","X","Y","Z">>
LowerChars == <<"a","b","c","d","e","f","g","h","i","j","k","l","m",
                "n","o","p","q","r","s","t","u","v","w","x","y","z">>
Whitespace == {" ", "\t", "\n"}

LowerChar(c) ==
  IF \E i \in 1..Len(UpperChars) : UpperChars[i] = c
  THEN LowerChars[CHOOSE i \in 1..Len(UpperChars) : UpperChars[i] = c]
  ELSE c

\* str.lower()
Lower(s) == [i \in 1..Len(s) |-> LowerChar(s[i])]

RECURSIVE LStrip(_)
LStrip(s) == IF s # <<>> /\ Head(s) \in Whitespace THEN LStrip(Tail(s)) ELSE s

RECURSIVE RStrip(_)
RStrip(s) ==
  IF s # <<>> /\ s[Len(s)] \in Whitespace THEN RStrip(SubSeq(s, 1, Len(s) - 1)) ELSE s

\* str.strip()
Strip(s) == RStrip(LStrip(s))

\* slug.lower().strip() of redirect_short_url
Normalize(raw) == Strip(Lower(raw))

\* ----------------------------------------------------------------- inputs
\* raw path segments and custom slugs a client can send
RawSlugs == {
    <<" ","G","o","T","o"," ">>,
    <<"A","d","m","i","n"," ">>,
    <<" ">>
  }
Urls == {"https://a.example", "https://b.example"}
\* instants a client can ask a link to expire at
ExpiryInstants == {1, TickStep + 1}

\* keys the stores can be asked about
Keys == {Normalize(r) : r \in RawSlugs} \ {<<>>}

Resolvers == {"r1", "r2"}
\* the worker that serves the resolves of a serial schedule
Serial == {"r1"}
Mutators == {"m1"}
\* request threads that use the other sub-stores of RedisService
Threads == {"t1", "t2"}
Procs == Resolvers \cup Mutators \cup Threads

\* ------------------------------------------------------------- Link model
\* datetime.isoformat() / datetime.fromisoformat(): the text form of an instant
Isoformat(d) == [iso |-> d]
FromIsoformat(t) == t.iso

\* Link.is_expired
IsExpired(l, t) ==
  IF l.expires_at = None THEN FALSE ELSE t > Val(l.expires_at)

\* Link.is_accessible
IsAccessible(l, t) == l.is_active /\ ~IsExpired(l, t)

\* faulty variant: the click count is part of the projection
ToCacheDictWithClicks(l) ==
  [ original_url |-> l.original_url,
    is_active    |-> l.is_active,
    clicks       |-> l.clicks,
    expires_at   |-> IF l.expires_at # None
                     THEN Some(Isoformat(Val(l.expires_at))) ELSE None ]

\* Link.to_cache_dict
ToCacheDict(l) ==
  [ original_url |-> l.original_url,
    is_active    |-> l.is_active,
    expires_at   |-> IF l.expires_at # None
                     THEN Some(Isoformat(Val(l.expires_at))) ELSE None ]

\* faulty variant: the comparison is written the wrong way round
CachedExpiredWrongWay(d, t) ==
  d.expires_at # None /\ t < FromIsoformat(Val(d.expires_at))

\* the expiry test both get_cached_link and redirect_short_url apply to a
\* cached dict: expires_at present and utcnow() > fromisoformat(expires_at)
CachedExpired(d, t) ==
  d.expires_at # None /\ t > FromIsoformat(Val(d.expires_at))

\* Link.__init__ followed by the column defaults
NewLink(s, url, exp) ==
  [ slug |-> Normalize(s), original_url |-> url, clicks |-> 0,
    is_active |-> TRUE, expires_at |-> exp ]

\* ------------------------------------------------------------ validators
AlphaNum == {LowerChars[i] : i \in 1..Len(LowerChars)}
              \cup {UpperChars[i] : i \in 1..Len(UpperChars)}
              \cup {"0","1","2","3","4","5","6","7","8","9"}

\* InputValidator.SLUG_REGEX
SlugRegexMatch(s) ==
  /\ Len(s) >= 1
  /\ s[1] \in AlphaNum
  /\ s[Len(s)] \in AlphaNum
  /\ \A i \in 1..Len(s) : s[i] \in AlphaNum \cup {"_", "-"}

\* faulty variant: validate_slug without the reserved-word test
ValidateSlugNoReserved(raw) ==
  LET s == Lower(Strip(raw)) IN
  IF raw = <<>> THEN None
  ELSE IF Len(s) < SLUG_MIN_LENGTH THEN None
  ELSE IF Len(s) > SLUG_MAX_LENGTH THEN None
  ELSE IF ~SlugRegexMatch(s) THEN None
  ELSE Some(s)

\* InputValidator.validate_slug: None when rejected, else the normalized slug
ValidateSlug(raw) ==
  LET s == Lower(Strip(raw)) IN
  IF raw = <<>> THEN None
  ELSE IF Len(s) < SLUG_MIN_LENGTH THEN None
  ELSE IF Len(s) > SLUG_MAX_LENGTH THEN None
  ELSE IF ~SlugRegexMatch(s) THEN None
  ELSE IF s \in RESERVED_SLUGS THEN None
  ELSE Some(s)

\* ------------------------------------------------------------------ state
VARIABLES
  now,                  \* datetime.utcnow(), in seconds
  redis_url,            \* app.config["REDIS_URL"]
  connection_attempted, \* RedisService._connection_attempted
  instance,             \* RedisService._instance
  db,                   \* links table: key -> Optional row
  cache,                \* redis keys cinbrainlinks:link:{slug} -> Optional entry
  tasks,                \* click threads in flight (bag of task records)
  pc,                   \* position of each request handler
  slug,                 \* the handler's slug
  client,               \* redis_service.client of the handler's RedisService
  link_data,            \* redirect_short_url: link_data
  link,                 \* redirect_short_url: link (the loaded ORM object)
  response,             \* the response the handler returned
  hook,                 \* CRUD handler: which cache hook follows the commit
  log,                  \* history: what the current resolve call has done
  world,                \* history: how the call's slug stood throughout the call
  interleave,           \* schedule: may CRUD handlers and resolvers overlap
  connects,             \* history: how many times _connect has run
  frac,                 \* datetime.utcnow(): the part of a second, in 1/Hz s
  blacklist,            \* redis keys cinbrainlinks:blacklist:{jti}
  reset,                \* redis keys cinbrainlinks:reset:{token}
  rate,                 \* redis keys cinbrainlinks:rate:{key}
  queue,                \* redis list cinbrainlinks:click_queue
  users,                \* users table: user id -> password version
  call,                 \* the operation a thread is running, with its locals
  ret,                  \* what a thread's last operation returned
  hist                  \* history the sub-store properties are stated over

\* everything the link resolver and the link handlers do not touch
subVars == << frac, blacklist, reset, rate, queue, users, call, ret, hist >>

vars == << now, redis_url, connection_attempted, instance, db, cache, tasks,
           pc, slug, client, link_data, link, response, hook, log, world,
           interleave, connects, subVars >>

\* ---------------------------------------------------------------- helpers
Ticks(t) == t \div TickStep

Running(p) == pc[p] \notin {"idle", "done"}

\* Under an interleaving schedule any handler may start at any time.  Otherwise
\* a handler starts when no handler of the other kind is in flight, and a
\* resolver when the click threads of earlier calls have ended.
MayStart(p) ==
  \/ interleave
  \/ /\ \A q \in Procs : (q \in Resolvers) # (p \in Resolvers) => pc[q] = "idle"
     /\ p \in Resolvers => tasks = EmptyBag

\* responses
Redirect(url) == [status |-> 302, error |-> "", location |-> url]
Error(code, msg) == [status |-> code, error |-> msg, location |-> ""]

\* history of one resolve call: its raw input, how many times it built a
\* RedisService, issued GET / SETEX / DELETE, queried the links table and
\* started a click thread; which kinds of failure it met; and what the links
\* table said about the slug when the call decided its outcome
EmptyLog == [ raw |-> <<>>, ctor |-> 0, get |-> 0, setex |-> 0, del |-> 0,
              query |-> 0, started |-> 0, cacheFault |-> FALSE,
              dbFault |-> FALSE, startFault |-> FALSE,
              dbv |-> "none", dburl |-> "" ]

\* nothing in the other sub-stores, no thread using them
Jtis == {"jti1", "jti2"}
Tokens == {"tokA", "tokB"}
RateKeys == {"ip:10.0.0.1"}
UserIds == {"u1"}
NoCall == [op |-> "none"]

SubIdle ==
  /\ frac = 0
  /\ blacklist = [j \in Jtis |-> None]
  /\ reset = [k \in Tokens |-> None]
  /\ rate = [k \in RateKeys |-> None]
  /\ queue = <<>>
  /\ users = [u \in UserIds |-> 0]
  /\ call = [t \in Threads |-> NoCall]
  /\ ret = [t \in Threads |-> None]
  /\ hist = <<>>

Init ==
  /\ now = 0
  /\ redis_url \in {None, Some("redis://cache:6379")}
  /\ connection_attempted = FALSE
  /\ instance = None
  /\ db = [k \in Keys |-> None]
  /\ cache = [k \in Keys |-> None]
  /\ tasks = EmptyBag
  /\ pc = [p \in Procs |-> "idle"]
  /\ slug = [p \in Procs |-> <<>>]
  /\ client = [p \in Procs |-> None]
  /\ link_data = [p \in Resolvers |-> None]
  /\ link = [p \in Resolvers |-> None]
  /\ response = [p \in Resolvers |-> None]
  /\ hook = [p \in Mutators |-> "none"]
  /\ log = [p \in Resolvers |-> EmptyLog]
  /\ world = [p \in Resolvers |-> "other"]
  /\ interleave = FALSE
  /\ connects = 0
  /\ SubIdle

\* ------------------------------------------------- history of a slug's world
\* How a slug stands at time t: its durable row d against its cache entry c.
\*   absent              no row, no entry
\*   cold                accessible row, no entry
\*   hit                 accessible row, entry equal to the row's projection
\*   warm                as hit, and the entry was written by a resolver's write-back
\*   expired_cached      active row past expires_at, entry equal to its projection
\*   expired_cold        active row past expires_at, no entry
\*   expired_cached_off, expired_cold_off   the same for an inactive row
WorldOf(d, c, t) ==
  IF d = None
  THEN IF c = None THEN "absent" ELSE "other"
  ELSE LET l == Val(d) IN
       IF c # None /\ Val(c).value # ToCacheDict(l) THEN "other"
       ELSE IF IsExpired(l, t)
            THEN IF l.is_active
                 THEN IF c = None THEN "expired_cold" ELSE "expired_cached"
                 ELSE IF c = None THEN "expired_cold_off" ELSE "expired_cached_off"
       ELSE IF ~l.is_active THEN "other"
       ELSE IF c = None THEN "cold"
       ELSE IF Val(c).by = "resolve" THEN "warm" ELSE "hit"

Accessible == {"cold", "hit", "warm"}

\* world[p] keeps the class the call started in for as long as the slug stays in
\* that class (the call's own cache writes and deletes stay inside it); a warm
\* start that loses its entry falls back to hit.
Keep(w, n) ==
  CASE w = "absent"         -> IF n = "absent" THEN w ELSE "other"
    [] w = "warm"           -> IF n = "warm" THEN w
                               ELSE IF n \in Accessible THEN "hit" ELSE "other"
    [] w \in {"cold","hit"} -> IF n \in Accessible THEN w ELSE "other"
    [] w = "expired_cached" -> IF n \in {"expired_cached", "expired_cold"}
                               THEN w ELSE "other"
    [] w = "expired_cached_off" ->
         IF n \in {"expired_cached_off", "expired_cold_off"} THEN w ELSE "other"
    [] w = "expired_cold"   -> IF n = "expired_cold" THEN w ELSE "other"
    [] OTHER                -> "other"

\* A handler at "done" has returned; the state only holds its response for
\* inspection, and Return clears it before anything else moves.
Quiet == \A p \in Resolvers \cup Threads : pc[p] # "done"

\* last conjunct of every action: reads the primed state.  starter is the
\* resolver whose call begins in this step, or "none".
WorldMove(starter) ==
  /\ Quiet
  /\ world' = [p \in Resolvers |->
    IF p = starter
    THEN IF slug'[p] \in Keys
         THEN WorldOf(db'[slug'[p]], cache'[slug'[p]], now') ELSE "absent"
    ELSE IF ~Running(p) THEN world[p]
    ELSE Keep(world[p], WorldOf(db'[slug[p]], cache'[slug[p]], now'))]

WorldStep(starter) == UNCHANGED subVars /\ WorldMove(starter)

\* ------------------------------------------------ RedisService.__init__
\* where a handler continues once its RedisService is constructed
AfterInit(p) ==
  IF p \in Resolvers THEN "get" ELSE IF p \in Mutators THEN "hook" ELSE "call"

Bump(p, field) ==
  IF p \in Resolvers
  THEN log' = [log EXCEPT ![p][field] = @ + 1]
  ELSE UNCHANGED log

\* __init__: test the class flag
RsInit(p) ==
  /\ pc[p] = "rs_init"
  /\ pc' = [pc EXCEPT ![p] = IF connection_attempted THEN "rs_client" ELSE "connect"]
  /\ Bump(p, "ctor")
  /\ UNCHANGED << interleave, connects, now, redis_url, connection_attempted, instance, db, cache, tasks,
                  slug, client, link_data, link, response, hook >>
  /\ WorldStep("none")

\* _connect: set the flag, read REDIS_URL
Connect(p) ==
  /\ pc[p] = "connect"
  /\ connection_attempted' = TRUE
  /\ connects' = connects + 1
  /\ pc' = [pc EXCEPT ![p] = IF redis_url = None THEN "rs_client" ELSE "from_url"]
  /\ UNCHANGED << interleave, now, redis_url, instance, db, cache, tasks,
                  slug, client, link_data, link, response, hook, log >>
  /\ WorldStep("none")

\* _connect: redis.from_url stores the client object in the class attribute
FromUrl(p) ==
  /\ pc[p] = "from_url"
  /\ instance' = Some("Redis")
  /\ pc' = [pc EXCEPT ![p] = "ping"]
  /\ UNCHANGED << interleave, connects, now, redis_url, connection_attempted, db, cache, tasks,
                  slug, client, link_data, link, response, hook, log >>
  /\ WorldStep("none")

\* _connect: ping() answers
PingOk(p) ==
  /\ pc[p] = "ping"
  /\ pc' = [pc EXCEPT ![p] = "rs_client"]
  /\ UNCHANGED << interleave, connects, now, redis_url, connection_attempted, instance, db, cache, tasks,
                  slug, client, link_data, link, response, hook, log >>
  /\ WorldStep("none")

\* _connect: ping() raises, the except clause clears the class attribute
PingFail(p) ==
  /\ pc[p] = "ping"
  /\ instance' = None
  /\ pc' = [pc EXCEPT ![p] = "rs_client"]
  /\ UNCHANGED << interleave, connects, now, redis_url, connection_attempted, db, cache, tasks,
                  slug, client, link_data, link, response, hook, log >>
  /\ WorldStep("none")

\* __init__: self.client = RedisService._instance
RsClient(p) ==
  /\ pc[p] = "rs_client"
  /\ client' = [client EXCEPT ![p] = instance]
  /\ pc' = [pc EXCEPT ![p] = AfterInit(p)]
  /\ UNCHANGED << interleave, connects, now, redis_url, connection_attempted, instance, db, cache, tasks,
                  slug, link_data, link, response, hook, log >>
  /\ WorldStep("none")

\* ---------------------------------------------- redirect_short_url (resolve)
connVars == << redis_url, connection_attempted, instance, interleave, connects >>

\* the handler returns: its locals die, the response and the history stay
Finish(p, resp) ==
  /\ pc' = [pc EXCEPT ![p] = "done"]
  /\ response' = [response EXCEPT ![p] = Some(resp)]
  /\ client' = [client EXCEPT ![p] = None]
  /\ link_data' = [link_data EXCEPT ![p] = None]
  /\ link' = [link EXCEPT ![p] = None]

\* client.setex(key, ttl, json.dumps(link_data))
Setex(k, value, who) ==
  cache' = [cache EXCEPT ![k] =
              Some([value |-> value, until |-> now + CACHE_TTL_LINK, by |-> who])]

\* client.delete(key)
Delete(k) == cache' = [cache EXCEPT ![k] = None]

\* increment_click_count: Thread(target=increment_click_async).start()
StartThread(k) ==
  tasks' = tasks (+) SetToBag({[slug |-> k, stage |-> "query", seen |-> 0, row |-> "live"]})

\* faulty variant: the reserved-word test of lines 76-78 is lost
RouteNoReserved(s) ==
  IF s = <<>> THEN Some(Error(400, "Invalid URL")) ELSE None

\* what the request does with its normalized slug before it touches a store
Route(s) ==
  IF s = <<>> THEN Some(Error(400, "Invalid URL"))
  ELSE IF s \in RESERVED_SLUGS THEN Some(Error(404, "Not found"))
  ELSE None

\* lines 70-81: normalize, reject empty and reserved slugs
Start(p, raw) ==
  /\ pc[p] = "idle"
  /\ MayStart(p)
  /\ LET s == Normalize(raw) IN
       /\ slug' = [slug EXCEPT ![p] = s]
       /\ log' = [log EXCEPT ![p] = [EmptyLog EXCEPT !.raw = raw]]
       /\ IF Route(s) # None
          THEN Finish(p, Val(Route(s)))
          ELSE /\ pc' = [pc EXCEPT ![p] = "rs_init"]
               /\ response' = [response EXCEPT ![p] = None]
               /\ UNCHANGED << client, link_data, link >>
  /\ UNCHANGED << now, connVars, db, cache, tasks, hook >>
  /\ WorldStep(p)

\* get_cached_link without a client: returns None
GetUnavailable(p) ==
  /\ pc[p] = "get"
  /\ client[p] = None
  /\ pc' = [pc EXCEPT ![p] = "query"]
  /\ log' = [log EXCEPT ![p].cacheFault = TRUE]
  /\ UNCHANGED << now, connVars, db, cache, tasks, slug, client, link_data, link,
                  response, hook >>
  /\ WorldStep("none")

\* get_cached_link: client.get(key) answers
GetOk(p) ==
  /\ pc[p] = "get"
  /\ client[p] # None
  /\ IF cache[slug[p]] = None
     THEN /\ pc' = [pc EXCEPT ![p] = "query"]
          /\ UNCHANGED link_data
     ELSE /\ pc' = [pc EXCEPT ![p] = "gcl_check"]
          /\ link_data' = [link_data EXCEPT ![p] = Some(Val(cache[slug[p]]).value)]
  /\ log' = [log EXCEPT ![p].get = @ + 1]
  /\ UNCHANGED << now, connVars, db, cache, tasks, slug, client, link,
                  response, hook >>
  /\ WorldStep("none")

\* faulty variant: the RedisError of client.get is not caught and reaches the caller
GetFailPropagates(p) ==
  /\ pc[p] = "get"
  /\ client[p] # None
  /\ Finish(p, Error(500, "Internal Server Error"))
  /\ log' = [log EXCEPT ![p].get = @ + 1, ![p].cacheFault = TRUE]
  /\ UNCHANGED << now, connVars, db, cache, tasks, slug, hook >>
  /\ WorldStep("none")

\* get_cached_link: client.get(key) raises RedisError, caught, returns None
GetFail(p) ==
  /\ pc[p] = "get"
  /\ client[p] # None
  /\ pc' = [pc EXCEPT ![p] = "query"]
  /\ log' = [log EXCEPT ![p].get = @ + 1, ![p].cacheFault = TRUE]
  /\ UNCHANGED << now, connVars, db, cache, tasks, slug, client, link_data, link,
                  response, hook >>
  /\ WorldStep("none")

\* get_cached_link lines 108-116: the entry's own expiry test
GclCheck(p) ==
  /\ pc[p] = "gcl_check"
  /\ pc' = [pc EXCEPT ![p] =
              IF CachedExpired(Val(link_data[p]), now) THEN "gcl_del" ELSE "hit"]
  /\ UNCHANGED << now, connVars, db, cache, tasks, slug, client, link_data, link,
                  response, hook, log >>
  /\ WorldStep("none")

\* faulty variant: the return None of line 113 is lost, the expired dict is handed on
GclInvalidateOkKeepsData(p) ==
  /\ pc[p] = "gcl_del"
  /\ Delete(slug[p])
  /\ pc' = [pc EXCEPT ![p] = "hit"]
  /\ log' = [log EXCEPT ![p].del = @ + 1]
  /\ UNCHANGED << now, connVars, db, tasks, slug, client, link_data, link,
                  response, hook >>
  /\ WorldStep("none")

\* get_cached_link line 112: invalidate_link_cache deletes, then return None
GclInvalidateOk(p) ==
  /\ pc[p] = "gcl_del"
  /\ Delete(slug[p])
  /\ link_data' = [link_data EXCEPT ![p] = None]
  /\ pc' = [pc EXCEPT ![p] = "query"]
  /\ log' = [log EXCEPT ![p].del = @ + 1]
  /\ UNCHANGED << now, connVars, db, tasks, slug, client, link, response, hook >>
  /\ WorldStep("none")

\* the same with delete raising RedisError inside invalidate_link_cache
GclInvalidateFail(p) ==
  /\ pc[p] = "gcl_del"
  /\ link_data' = [link_data EXCEPT ![p] = None]
  /\ pc' = [pc EXCEPT ![p] = "query"]
  /\ log' = [log EXCEPT ![p].del = @ + 1, ![p].cacheFault = TRUE]
  /\ UNCHANGED << now, connVars, db, cache, tasks, slug, client, link, response, hook >>
  /\ WorldStep("none")

\* faulty variant: the missing-row test is lost, a missing row reads as a disabled one
DbVerdictNoNotFound(row, t) ==
  IF row = None THEN "disabled"
  ELSE IF ~Val(row).is_active THEN "disabled"
  ELSE IF IsExpired(Val(row), t) THEN "expired"
  ELSE "ok"

\* faulty variant: the expiry test comes before the is_active test
DbVerdictExpiredFirst(row, t) ==
  IF row = None THEN "notfound"
  ELSE IF IsExpired(Val(row), t) THEN "expired"
  ELSE IF ~Val(row).is_active THEN "disabled"
  ELSE "ok"

\* the outcome the resolver reads off the durable row (lines 122-135)
DbVerdict(row, t) ==
  IF row = None THEN "notfound"
  ELSE IF ~Val(row).is_active THEN "disabled"
  ELSE IF IsExpired(Val(row), t) THEN "expired"
  ELSE "ok"

\* history: what the links table says about the call's slug right now
DbSays(p, l) ==
  [l EXCEPT !.dbv = DbVerdict(db[slug[p]], now),
            !.dburl = IF db[slug[p]] = None THEN ""
                      ELSE Val(db[slug[p]]).original_url]

\* the outcome the resolver reads off a cached dict (lines 92-105)
HitVerdict(d, t) ==
  IF ~d.is_active THEN "disabled"
  ELSE IF CachedExpired(d, t) THEN "expired"
  ELSE "ok"

\* lines 88-105: cache hit, revalidate the snapshot
Hit(p) ==
  /\ pc[p] = "hit"
  /\ LET v == HitVerdict(Val(link_data[p]), now) IN
       IF v = "disabled"
       THEN /\ Finish(p, Error(410, "This link has been disabled"))
            /\ log' = [log EXCEPT ![p] = DbSays(p, @)]
       ELSE /\ pc' = [pc EXCEPT ![p] = IF v = "expired" THEN "hit_del" ELSE "hit_click"]
            /\ UNCHANGED << client, link_data, link, response, log >>
  /\ UNCHANGED << now, connVars, db, cache, tasks, slug, hook >>
  /\ WorldStep("none")

\* line 102: invalidate the stale entry, answer 410
HitInvalidateOk(p) ==
  /\ pc[p] = "hit_del"
  /\ Delete(slug[p])
  /\ Finish(p, Error(410, "This link has expired"))
  /\ log' = [log EXCEPT ![p] = DbSays(p, [@ EXCEPT !.del = @ + 1])]
  /\ UNCHANGED << now, connVars, db, tasks, slug, hook >>
  /\ WorldStep("none")

HitInvalidateFail(p) ==
  /\ pc[p] = "hit_del"
  /\ Finish(p, Error(410, "This link has expired"))
  /\ log' = [log EXCEPT ![p] =
               DbSays(p, [@ EXCEPT !.del = @ + 1, !.cacheFault = TRUE])]
  /\ UNCHANGED << now, connVars, db, cache, tasks, slug, hook >>
  /\ WorldStep("none")

\* faulty variant: the return of line 111 is lost, the handler runs on into the
\* database path after it dispatched the click
HitClickOkFallsThrough(p) ==
  /\ pc[p] = "hit_click"
  /\ StartThread(slug[p])
  /\ pc' = [pc EXCEPT ![p] = "query"]
  /\ log' = [log EXCEPT ![p].started = @ + 1]
  /\ UNCHANGED << now, connVars, db, cache, slug, client, link_data, link,
                  response, hook >>
  /\ WorldStep("none")

\* lines 108-111: dispatch the click, redirect to the cached URL
HitClickOk(p) ==
  /\ pc[p] = "hit_click"
  /\ StartThread(slug[p])
  /\ Finish(p, Redirect(Val(link_data[p]).original_url))
  /\ log' = [log EXCEPT ![p] = DbSays(p, [@ EXCEPT !.started = @ + 1])]
  /\ UNCHANGED << now, connVars, db, cache, slug, hook >>
  /\ WorldStep("none")

\* line 108 raises (the thread cannot be started): caught at line 113,
\* the handler falls through to the database
HitClickFail(p) ==
  /\ pc[p] = "hit_click"
  /\ pc' = [pc EXCEPT ![p] = "query"]
  /\ log' = [log EXCEPT ![p].startFault = TRUE]
  /\ UNCHANGED << now, connVars, db, cache, tasks, slug, client, link_data, link,
                  response, hook >>
  /\ WorldStep("none")

\* lines 120-135: Link.query.filter_by(slug=slug).first() answers
QueryOk(p) ==
  /\ pc[p] = "query"
  /\ LET row == db[slug[p]]
         v == DbVerdict(row, now) IN
       CASE v = "notfound" -> Finish(p, Error(404, "Link not found"))
         [] v = "disabled" -> Finish(p, Error(410, "This link has been disabled"))
         [] v = "expired"  -> Finish(p, Error(410, "This link has expired"))
         [] OTHER -> /\ pc' = [pc EXCEPT ![p] = "cache_link"]
                     /\ link' = [link EXCEPT ![p] = row]
                     /\ UNCHANGED << client, link_data, response >>
  /\ log' = [log EXCEPT ![p] = DbSays(p, [@ EXCEPT !.query = @ + 1])]
  /\ UNCHANGED << now, connVars, db, cache, tasks, slug, hook >>
  /\ WorldStep("none")

\* line 120 raises (the durable store fails): nothing catches it, Flask answers 500
QueryFail(p) ==
  /\ pc[p] = "query"
  /\ Finish(p, Error(500, "Internal Server Error"))
  /\ log' = [log EXCEPT ![p].query = @ + 1, ![p].dbFault = TRUE]
  /\ UNCHANGED << now, connVars, db, cache, tasks, slug, hook >>
  /\ WorldStep("none")

\* line 140, cache_link without a client: returns False
CacheLinkUnavailable(p) ==
  /\ pc[p] = "cache_link"
  /\ client[p] = None
  /\ pc' = [pc EXCEPT ![p] = "click"]
  /\ UNCHANGED << now, connVars, db, cache, tasks, slug, client, link_data, link,
                  response, hook, log >>
  /\ WorldStep("none")

\* line 140: write the row's projection back
CacheLinkOk(p) ==
  /\ pc[p] = "cache_link"
  /\ client[p] # None
  /\ Setex(slug[p], ToCacheDict(Val(link[p])), "resolve")
  /\ pc' = [pc EXCEPT ![p] = "click"]
  /\ log' = [log EXCEPT ![p].setex = @ + 1]
  /\ UNCHANGED << now, connVars, db, tasks, slug, client, link_data, link,
                  response, hook >>
  /\ WorldStep("none")

\* line 140 with setex raising RedisError inside cache_link: returns False
CacheLinkFail(p) ==
  /\ pc[p] = "cache_link"
  /\ client[p] # None
  /\ pc' = [pc EXCEPT ![p] = "click"]
  /\ log' = [log EXCEPT ![p].setex = @ + 1, ![p].cacheFault = TRUE]
  /\ UNCHANGED << now, connVars, db, cache, tasks, slug, client, link_data, link,
                  response, hook >>
  /\ WorldStep("none")

\* lines 145-148: dispatch the click, redirect to the row's URL
ClickOk(p) ==
  /\ pc[p] = "click"
  /\ StartThread(slug[p])
  /\ Finish(p, Redirect(Val(link[p]).original_url))
  /\ log' = [log EXCEPT ![p].started = @ + 1]
  /\ UNCHANGED << now, connVars, db, cache, slug, hook >>
  /\ WorldStep("none")

\* line 145 raises (the thread cannot be started): nothing catches it
ClickFail(p) ==
  /\ pc[p] = "click"
  /\ Finish(p, Error(500, "Internal Server Error"))
  /\ log' = [log EXCEPT ![p].startFault = TRUE]
  /\ UNCHANGED << now, connVars, db, cache, tasks, slug, hook >>
  /\ WorldStep("none")

\* the response has left: forget the call
Return(p) ==
  /\ pc[p] = "done"
  /\ pc' = [pc EXCEPT ![p] = "idle"]
  /\ slug' = [slug EXCEPT ![p] = <<>>]
  /\ response' = [response EXCEPT ![p] = None]
  /\ log' = [log EXCEPT ![p] = EmptyLog]
  /\ world' = [world EXCEPT ![p] = "other"]
  /\ UNCHANGED << now, connVars, db, cache, tasks, client, link_data, link, hook,
                  subVars >>

\* ------------------------------------------------- increment_click_async
reqVars == << pc, slug, client, link_data, link, response, hook, log >>

Replace(t, u) == (tasks (-) SetToBag({t})) (+) SetToBag({u})

\* everything but hist that the resolver and the link handlers do not touch
subStores == << frac, blacklist, reset, rate, queue, users, call, ret >>

\* history of the click threads, kept where a specification asks for it: how
\* many commits succeeded, whether the last row loaded was active, and whether
\* a commit was made on a row whose is_active had changed since it was loaded
Loaded(row) ==
  IF DOMAIN hist = {} \/ row = None THEN hist
  ELSE [hist EXCEPT !.read = Val(row).is_active]

Counted(row) ==
  IF DOMAIN hist = {} THEN hist
  ELSE [hist EXCEPT !.commits = @ + 1,
                    !.stale = @ \/ Val(row).is_active # hist.read]

\* line 32: the thread loads the row
TaskQuery(t) ==
  /\ t \in BagToSet(tasks)
  /\ t.stage = "query"
  /\ IF db[t.slug] = None
     THEN tasks' = tasks (-) SetToBag({t})
     ELSE tasks' = Replace(t, [t EXCEPT !.stage = "commit",
                                        !.seen = Val(db[t.slug]).clicks])
  /\ hist' = Loaded(db[t.slug])
  /\ UNCHANGED << now, connVars, db, cache, reqVars, subStores >>
  /\ WorldMove("none")

\* faulty variant: the commit writes the loaded object's other columns too
\* (is_active as the thread found it when tasks start, TRUE)
TaskCommitWholeRow(t) ==
  /\ t \in BagToSet(tasks)
  /\ t.stage = "commit"
  /\ t.row = "live"
  /\ t.seen < MaxClicks
  /\ db' = [db EXCEPT ![t.slug] = Some([Val(@) EXCEPT !.clicks = t.seen + 1,
                                                      !.is_active = TRUE])]
  /\ tasks' = tasks (-) SetToBag({t})
  /\ hist' = Counted(db[t.slug])
  /\ UNCHANGED << now, connVars, cache, reqVars, subStores >>
  /\ WorldMove("none")

\* lines 34-35: clicks += 1 on the loaded object, commit writes the new value
TaskCommit(t) ==
  /\ t \in BagToSet(tasks)
  /\ t.stage = "commit"
  /\ t.row = "live"
  /\ t.seen < MaxClicks
  /\ db' = [db EXCEPT ![t.slug] = Some([Val(@) EXCEPT !.clicks = t.seen + 1])]
  /\ tasks' = tasks (-) SetToBag({t})
  /\ hist' = Counted(db[t.slug])
  /\ UNCHANGED << now, connVars, cache, reqVars, subStores >>
  /\ WorldMove("none")

\* lines 37-39: the query or the commit raises (also: the row was deleted
\* since it was loaded); rollback, log, no retry
TaskFail(t) ==
  /\ t \in BagToSet(tasks)
  /\ tasks' = tasks (-) SetToBag({t})
  /\ UNCHANGED << now, connVars, db, cache, reqVars >>
  /\ WorldStep("none")

\* ------------------------------------------------------ link CRUD handlers
\* the handler answers without a cache hook
Answer(m, code) ==
  /\ pc' = [pc EXCEPT ![m] = "idle"]
  /\ hook' = [hook EXCEPT ![m] = "none"]
  /\ client' = [client EXCEPT ![m] = None]
  /\ slug' = [slug EXCEPT ![m] = <<>>]
  /\ UNCHANGED response

\* db.session.commit() succeeded: the cache hook follows
Committed(m, k, h) ==
  /\ pc' = [pc EXCEPT ![m] = "rs_init"]
  /\ slug' = [slug EXCEPT ![m] = k]
  /\ hook' = [hook EXCEPT ![m] = h]
  /\ UNCHANGED << client, response >>

\* expires_at values a client can send: absent, or one of these instants
ExpiryInputs == {None} \cup {Some(e) : e \in ExpiryInstants}

\* create_link lines 57-107 with a custom slug
CreateLink(m, raw, url, exp) ==
  /\ pc[m] = "idle"
  /\ MayStart(m)
  /\ LET v == ValidateSlug(raw) IN
       IF v = None
       THEN Answer(m, 400) /\ UNCHANGED db
       ELSE IF db[Val(v)] # None
       THEN Answer(m, 409) /\ UNCHANGED db
       ELSE IF exp # None /\ Val(exp) <= now
       THEN Answer(m, 400) /\ UNCHANGED db
       ELSE /\ db' = [db EXCEPT ![Val(v)] = Some(NewLink(Val(v), url, exp))]
            /\ Committed(m, Val(v), "set")
  /\ UNCHANGED << now, connVars, cache, tasks, link_data, link, log >>
  /\ WorldStep("none")

\* SlugGenerator.generate_unique: what it may return.  generate() draws a random
\* string, here any key of the model; a candidate that is reserved or taken is
\* skipped, and None is returned when every attempt was skipped
GenerateUnique ==
  {None} \cup {Some(g) : g \in {k \in Keys : k \notin RESERVED_SLUGS /\ db[k] = None}}

\* create_link lines 68-107 without a custom slug
CreateLinkAuto(m, url, exp) ==
  /\ pc[m] = "idle"
  /\ MayStart(m)
  /\ \E g \in GenerateUnique :
       IF g = None
       THEN Answer(m, 500) /\ UNCHANGED db
       ELSE IF exp # None /\ Val(exp) <= now
       THEN Answer(m, 400) /\ UNCHANGED db
       ELSE /\ db' = [db EXCEPT ![Val(g)] = Some(NewLink(Val(g), url, exp))]
            /\ Committed(m, Val(g), "set")
  /\ UNCHANGED << now, connVars, cache, tasks, link_data, link, log >>
  /\ WorldStep("none")

\* update_link lines 246-280: is_active and expires_at are optional fields
UpdateLink(m, k, active, exp) ==
  /\ pc[m] = "idle"
  /\ MayStart(m)
  /\ db[k] # None
  /\ IF exp # None /\ Val(exp) # None /\ Val(Val(exp)) <= now
     THEN Answer(m, 400) /\ UNCHANGED db
     ELSE /\ db' = [db EXCEPT ![k] = Some(
                     [Val(@) EXCEPT
                        !.is_active = IF active # None THEN Val(active) ELSE @,
                        !.expires_at = IF exp # None THEN Val(exp) ELSE @])]
          /\ Committed(m, k, "set")
  /\ UNCHANGED << now, connVars, cache, tasks, link_data, link, log >>
  /\ WorldStep("none")

\* faulty variant: toggle_link answers after the commit without the cache hook
ToggleLinkNoHook(m, k) ==
  /\ pc[m] = "idle"
  /\ MayStart(m)
  /\ db[k] # None
  /\ db' = [db EXCEPT ![k] = Some([Val(@) EXCEPT !.is_active = ~@])]
  /\ Answer(m, 200)
  /\ UNCHANGED << now, connVars, cache, tasks, link_data, link, log >>
  /\ WorldStep("none")

\* toggle_link lines 357-359
ToggleLink(m, k) ==
  /\ pc[m] = "idle"
  /\ MayStart(m)
  /\ db[k] # None
  /\ db' = [db EXCEPT ![k] = Some([Val(@) EXCEPT !.is_active = ~@])]
  /\ Committed(m, k, "set")
  /\ UNCHANGED << now, connVars, cache, tasks, link_data, link, log >>
  /\ WorldStep("none")

\* delete_link lines 320-324; click threads holding the row lose it
DeleteLink(m, k) ==
  /\ pc[m] = "idle"
  /\ MayStart(m)
  /\ db[k] # None
  /\ db' = [db EXCEPT ![k] = None]
  /\ tasks' = BagOfAll(LAMBDA t : IF t.slug = k /\ t.stage = "commit"
                                  THEN [t EXCEPT !.row = "gone"] ELSE t, tasks)
  /\ Committed(m, k, "del")
  /\ UNCHANGED << now, connVars, cache, link_data, link, log >>
  /\ WorldStep("none")

\* any of the four handlers: the commit raises, rollback, 500, no cache hook
CommitFail(m) ==
  /\ pc[m] = "idle"
  /\ MayStart(m)
  /\ Answer(m, 500)
  /\ UNCHANGED << now, connVars, db, cache, tasks, link_data, link, log >>
  /\ WorldStep("none")

\* the hook finds no client: cache_link / invalidate_link_cache return False
HookUnavailable(m) ==
  /\ pc[m] = "hook"
  /\ client[m] = None
  /\ Answer(m, 200)
  /\ UNCHANGED << now, connVars, db, cache, tasks, link_data, link, log >>
  /\ WorldStep("none")

\* redis_service.cache_link(link.slug, link.to_cache_dict()) after the commit
HookCacheLink(m) ==
  /\ pc[m] = "hook"
  /\ client[m] # None
  /\ hook[m] = "set"
  /\ Setex(slug[m], ToCacheDict(Val(db[slug[m]])), "crud")
  /\ Answer(m, 200)
  /\ UNCHANGED << now, connVars, db, tasks, link_data, link, log >>
  /\ WorldStep("none")

\* redis_service.invalidate_link_cache(slug) after the delete
HookInvalidate(m) ==
  /\ pc[m] = "hook"
  /\ client[m] # None
  /\ hook[m] = "del"
  /\ Delete(slug[m])
  /\ Answer(m, 200)
  /\ UNCHANGED << now, connVars, db, tasks, link_data, link, log >>
  /\ WorldStep("none")

\* the hook's redis call raises RedisError: logged, the handler still answers
HookFail(m) ==
  /\ pc[m] = "hook"
  /\ client[m] # None
  /\ Answer(m, 200)
  /\ UNCHANGED << now, connVars, db, cache, tasks, link_data, link, log >>
  /\ WorldStep("none")

\* ------------------------------------------------------------------- clock
\* time passes; redis drops the entries whose TTL has elapsed
Tick ==
  /\ Ticks(now) < MaxTicks
  /\ now' = now + TickStep
  /\ cache' = [k \in Keys |->
                 IF cache[k] # None /\ Val(cache[k]).until <= now + TickStep
                 THEN None ELSE cache[k]]
  /\ UNCHANGED << connVars, db, tasks, reqVars >>
  /\ WorldStep("none")

\* --------------------------------------------------------- specification
\* every shape a click thread's state takes
TaskKinds == [slug : Keys, stage : {"query", "commit"}, seen : 0..MaxClicks,
              row : {"live", "gone"}]

Next ==
  \/ \E p \in Serial \cup Mutators :
       RsInit(p) \/ Connect(p) \/ FromUrl(p)
         \/ PingOk(p) \/ PingFail(p) \/ RsClient(p)
  \/ \E p \in Serial, raw \in RawSlugs : Start(p, raw)
  \/ \E p \in Serial :
       \/ GetUnavailable(p) \/ GetOk(p) \/ GetFail(p) \/ GclCheck(p)
       \/ GclInvalidateOk(p) \/ GclInvalidateFail(p)
       \/ Hit(p) \/ HitInvalidateOk(p) \/ HitInvalidateFail(p)
       \/ HitClickOk(p) \/ HitClickFail(p)
       \/ QueryOk(p) \/ QueryFail(p)
       \/ CacheLinkUnavailable(p) \/ CacheLinkOk(p) \/ CacheLinkFail(p)
       \/ ClickOk(p) \/ ClickFail(p) \/ Return(p)
  \/ \E t \in TaskKinds : TaskQuery(t) \/ TaskCommit(t) \/ TaskFail(t)
  \/ \E m \in Mutators :
       \/ \E raw \in RawSlugs, url \in Urls, exp \in ExpiryInputs :
            CreateLink(m, raw, url, exp)
       \/ \E url \in Urls, exp \in ExpiryInputs : CreateLinkAuto(m, url, exp)
       \/ \E k \in Keys, active \in {None, Some(TRUE), Some(FALSE)},
             exp \in {None} \cup {Some(e) : e \in ExpiryInputs} :
            UpdateLink(m, k, active, exp)
       \/ \E k \in Keys : ToggleLink(m, k) \/ DeleteLink(m, k)
       \/ CommitFail(m)
       \/ HookUnavailable(m) \/ HookCacheLink(m) \/ HookInvalidate(m) \/ HookFail(m)
  \/ Tick

Spec == Init /\ [][Next]_vars

\* ------------------------------------------ concurrent misses for one slug
\* the slug every call of this schedule asks for, and its durable row
MissRaw == <<" ","G","o","T","o"," ">>
MissRow == NewLink(MissRaw, "https://a.example", None)

\* an accessible link exists and nothing is cached; no handler changes the link
InitMiss ==
  /\ now = 0
  /\ redis_url \in {None, Some("redis://cache:6379")}
  /\ connection_attempted = FALSE
  /\ instance = None
  /\ db = [k \in Keys |-> IF k = Normalize(MissRaw) THEN Some(MissRow) ELSE None]
  /\ cache = [k \in Keys |-> None]
  /\ tasks = EmptyBag
  /\ pc = [p \in Procs |-> "idle"]
  /\ slug = [p \in Procs |-> <<>>]
  /\ client = [p \in Procs |-> None]
  /\ link_data = [p \in Resolvers |-> None]
  /\ link = [p \in Resolvers |-> None]
  /\ response = [p \in Resolvers |-> None]
  /\ hook = [p \in Mutators |-> "none"]
  /\ log = [p \in Resolvers |-> EmptyLog]
  /\ world = [p \in Resolvers |-> "other"]
  /\ interleave = FALSE
  /\ connects = 0
  /\ SubIdle

NextMiss ==
  \/ \E p \in Resolvers :
       RsInit(p) \/ Connect(p) \/ FromUrl(p)
         \/ PingOk(p) \/ PingFail(p) \/ RsClient(p)
  \/ \E p \in Resolvers : Start(p, MissRaw)
  \/ \E p \in Resolvers :
       \/ GetUnavailable(p) \/ GetOk(p) \/ GetFail(p) \/ GclCheck(p)
       \/ Hit(p) \/ HitClickOk(p) \/ HitClickFail(p)
       \/ QueryOk(p) \/ QueryFail(p)
       \/ CacheLinkUnavailable(p) \/ CacheLinkOk(p) \/ CacheLinkFail(p)
       \/ ClickOk(p) \/ ClickFail(p) \/ Return(p)
  \/ \E t \in TaskKinds : TaskQuery(t) \/ TaskCommit(t) \/ TaskFail(t)
  \/ Tick

SpecMiss == InitMiss /\ [][NextMiss]_vars

\* ------------------------------------------- click threads running together
\* the most click threads in flight at once
MaxTasks == 3

\* redirects of one link have started click threads that have not run yet; the
\* link's owner goes on toggling, updating and deleting it
InitClicks ==
  /\ now = 0
  /\ redis_url \in {None, Some("redis://cache:6379")}
  /\ connection_attempted = FALSE
  /\ instance = None
  /\ db = [k \in Keys |-> IF k = Normalize(MissRaw) THEN Some(MissRow) ELSE None]
  /\ cache = [k \in Keys |-> None]
  /\ pc = [p \in Procs |-> "idle"]
  /\ slug = [p \in Procs |-> <<>>]
  /\ client = [p \in Procs |-> None]
  /\ link_data = [p \in Resolvers |-> None]
  /\ link = [p \in Resolvers |-> None]
  /\ response = [p \in Resolvers |-> None]
  /\ hook = [p \in Mutators |-> "none"]
  /\ log = [p \in Resolvers |-> EmptyLog]
  /\ world = [p \in Resolvers |-> "other"]
  /\ interleave = FALSE
  /\ connects = 0
  /\ frac = 0
  /\ blacklist = [j \in Jtis |-> None]
  /\ reset = [k \in Tokens |-> None]
  /\ rate = [k \in RateKeys |-> None]
  /\ queue = <<>>
  /\ users = [u \in UserIds |-> 0]
  /\ call = [t \in Threads |-> NoCall]
  /\ ret = [t \in Threads |-> None]
  /\ \E n \in 1..MaxTasks :
       /\ tasks = [t \in {[slug |-> Normalize(MissRaw), stage |-> "query",
                           seen |-> 0, row |-> "live"]} |-> n]
       /\ hist = [started |-> n, commits |-> 0, read |-> TRUE, stale |-> FALSE]

NextClicks ==
  \/ \E t \in TaskKinds : TaskQuery(t) \/ TaskCommit(t) \/ TaskFail(t)
  \/ \E m \in Mutators :
       \/ RsInit(m) \/ Connect(m) \/ FromUrl(m)
       \/ PingOk(m) \/ PingFail(m) \/ RsClient(m)
       \/ \E active \in {None, Some(FALSE)}, exp \in {None, Some(None)} :
            UpdateLink(m, Normalize(MissRaw), active, exp)
       \/ ToggleLink(m, Normalize(MissRaw)) \/ DeleteLink(m, Normalize(MissRaw))
       \/ CommitFail(m)
       \/ HookUnavailable(m) \/ HookCacheLink(m) \/ HookInvalidate(m) \/ HookFail(m)

SpecClicks == InitClicks /\ [][NextClicks]_vars

\* ---------------------------------- resolves that overlap a link's mutations
\* an accessible link exists, the cache is reachable and no redis command fails;
\* under the interleaving schedule the owner's handlers run while a resolve of
\* the link is in flight, under the other one requests follow one another
InitStale ==
  /\ now = 0
  /\ redis_url = Some("redis://cache:6379")
  /\ connection_attempted = FALSE
  /\ instance = None
  /\ db = [k \in Keys |-> IF k = Normalize(MissRaw) THEN Some(MissRow) ELSE None]
  /\ cache = [k \in Keys |-> None]
  /\ tasks = EmptyBag
  /\ pc = [p \in Procs |-> "idle"]
  /\ slug = [p \in Procs |-> <<>>]
  /\ client = [p \in Procs |-> None]
  /\ link_data = [p \in Resolvers |-> None]
  /\ link = [p \in Resolvers |-> None]
  /\ response = [p \in Resolvers |-> None]
  /\ hook = [p \in Mutators |-> "none"]
  /\ log = [p \in Resolvers |-> EmptyLog]
  /\ world = [p \in Resolvers |-> "other"]
  /\ interleave \in {TRUE, FALSE}
  /\ connects = 0
  /\ SubIdle

NextStale ==
  \/ \E p \in Serial \cup Mutators :
       RsInit(p) \/ Connect(p) \/ FromUrl(p) \/ PingOk(p) \/ RsClient(p)
  \/ \E p \in Serial : tasks = EmptyBag /\ Start(p, MissRaw)
  \/ \E p \in Serial :
       \/ GetOk(p) \/ GclCheck(p) \/ GclInvalidateOk(p)
       \/ Hit(p) \/ HitInvalidateOk(p) \/ HitClickOk(p) \/ HitClickFail(p)
       \/ QueryOk(p) \/ CacheLinkOk(p) \/ ClickOk(p) \/ ClickFail(p)
       \/ Return(p)
  \/ \E t \in TaskKinds : TaskQuery(t) \/ TaskCommit(t)
  \/ \E m \in Mutators :
       \/ CreateLink(m, MissRaw, "https://b.example", None)
       \/ \E active \in {None, Some(FALSE)}, exp \in {None, Some(Some(1))} :
            UpdateLink(m, Normalize(MissRaw), active, exp)
       \/ ToggleLink(m, Normalize(MissRaw)) \/ DeleteLink(m, Normalize(MissRaw))
       \/ HookCacheLink(m) \/ HookInvalidate(m)
  \/ Tick

SpecStale == InitStale /\ [][NextStale]_vars

\* ======================================================= the other sub-stores
\* The blacklist, the reset tokens, the rate counters and the click queue are
\* used by request threads that construct a RedisService (the actions above)
\* and then run one operation.  Their clock counts 1/Hz seconds.
linkVars == << redis_url, db, cache, tasks, slug, link_data, link, response,
               hook, log, world, interleave >>

\* the state of Init without the sub-stores
LinkIdle ==
  /\ now = 0
  /\ connection_attempted = FALSE
  /\ instance = None
  /\ connects = 0
  /\ db = [k \in Keys |-> None]
  /\ cache = [k \in Keys |-> None]
  /\ tasks = EmptyBag
  /\ pc = [p \in Procs |-> "idle"]
  /\ slug = [p \in Procs |-> <<>>]
  /\ client = [p \in Procs |-> None]
  /\ link_data = [p \in Resolvers |-> None]
  /\ link = [p \in Resolvers |-> None]
  /\ response = [p \in Resolvers |-> None]
  /\ hook = [p \in Mutators |-> "none"]
  /\ log = [p \in Resolvers |-> EmptyLog]
  /\ world = [p \in Resolvers |-> "other"]

\* datetime.utcnow() in clock readings
Clock == now * Hz + frac

\* a redis key with a TTL is there until the TTL has elapsed
Live(e) == e # None /\ Clock < Val(e).until

\* int(x) of a number of clock readings taken as seconds: truncates toward zero
IntSeconds(x) == IF x >= 0 THEN x \div Hz ELSE 0 - ((0 - x) \div Hz)

\* a thread starts when the others are idle, unless the schedule interleaves
Alone(t) == interleave \/ \A q \in Threads \ {t} : pc[q] = "idle"

\* the thread enters RedisService() on behalf of call c
Enter(t, c) ==
  /\ pc' = [pc EXCEPT ![t] = "rs_init"]
  /\ call' = [call EXCEPT ![t] = c]
  /\ ret' = [ret EXCEPT ![t] = None]
  /\ UNCHANGED client

\* the thread's operation returns v; ok tells that it found a client and that
\* no redis command of it raised
Leave(t, v, ok) ==
  /\ pc' = [pc EXCEPT ![t] = "done"]
  /\ client' = [client EXCEPT ![t] = None]
  /\ ret' = [ret EXCEPT ![t] = Some([v |-> v, ok |-> ok])]
  /\ UNCHANGED call

\* the caller has its answer: forget the call
Forget(t) ==
  /\ pc[t] = "done"
  /\ pc' = [pc EXCEPT ![t] = "idle"]
  /\ call' = [call EXCEPT ![t] = NoCall]
  /\ ret' = [ret EXCEPT ![t] = None]
  /\ UNCHANGED << linkVars, now, frac, connection_attempted, instance, connects,
                  client, blacklist, reset, rate, queue, users, hist >>

\* time passes by one clock reading
Pass ==
  /\ Quiet
  /\ now < MaxSeconds
  /\ IF frac + 1 >= Hz
     THEN now' = now + 1 /\ frac' = 0
     ELSE frac' = frac + 1 /\ UNCHANGED now
  /\ UNCHANGED << linkVars, connection_attempted, instance, connects, pc, client,
                  blacklist, reset, rate, queue, users, call, ret, hist >>

\* -------------------------------------------------- JWT blacklist and logout
\* credentials: a jti and the exp claim, in whole seconds
Jwts == {[jti |-> "jti1", exp |-> 2], [jti |-> "jti2", exp |-> 1]}
\* ttl arguments of a direct blacklist_token call
TtlInputs == {None, Some(0), Some(1)}

authFrame == << linkVars, now, frac, connection_attempted, instance, connects,
                reset, rate, queue, users >>

InitAuth ==
  /\ LinkIdle
  /\ redis_url \in {None, Some("redis://cache:6379")}
  /\ interleave = FALSE
  /\ frac = 0
  /\ blacklist = [j \in Jtis |-> None]
  /\ reset = [k \in Tokens |-> None]
  /\ rate = [k \in RateKeys |-> None]
  /\ queue = <<>>
  /\ users = [u \in UserIds |-> 0]
  /\ call = [t \in Threads |-> NoCall]
  /\ ret = [t \in Threads |-> None]
  /\ hist = [revoked |-> [j \in Jtis |-> None],
             loggedout |-> [j \in Jtis |-> "no"]]

\* a caller invokes blacklist_token(jti, ttl) or is_token_blacklisted(jti)
BeginBlacklist(t, op, j, ttl) ==
  /\ pc[t] = "idle" /\ Alone(t)
  /\ Enter(t, [op |-> op, jti |-> j, ttl |-> ttl, exp |-> 0, stage |-> "direct"])
  /\ UNCHANGED << authFrame, blacklist, hist >>

\* a request with credential tok reaches an endpoint under @jwt_required
\* (op "request") or reaches logout: an expired credential is refused at once,
\* otherwise check_if_token_revoked constructs a RedisService
BeginAuth(t, op, tok) ==
  /\ pc[t] = "idle" /\ Alone(t)
  /\ LET c == [op |-> op, jti |-> tok.jti, ttl |-> None, exp |-> tok.exp,
               stage |-> "verify"] IN
       IF Clock >= tok.exp * Hz
       THEN /\ call' = [call EXCEPT ![t] = c]
            /\ pc' = [pc EXCEPT ![t] = "done"]
            /\ ret' = [ret EXCEPT ![t] = Some([v |-> "401 expired", ok |-> TRUE])]
            /\ UNCHANGED client
       ELSE Enter(t, c)
  /\ UNCHANGED << authFrame, blacklist, hist >>

Checking(t) ==
  /\ pc[t] = "call"
  /\ \/ call[t].op = "is_token_blacklisted"
     \/ call[t].op \in {"request", "logout"} /\ call[t].stage = "verify"

\* what follows is_token_blacklisted returning b
Checked(t, b, ok) ==
  CASE call[t].op = "is_token_blacklisted" ->
         Leave(t, IF b THEN "True" ELSE "False", ok)
    [] call[t].op = "request" ->
         Leave(t, IF b THEN "401 revoked" ELSE "200", ok)
    [] OTHER ->
         IF b THEN Leave(t, "401 revoked", ok)
         ELSE /\ pc' = [pc EXCEPT ![t] = "logout"]
              /\ client' = [client EXCEPT ![t] = None]
              /\ UNCHANGED << call, ret >>

\* is_token_blacklisted lines 194-195: no client
IsBlacklistedUnavailable(t) ==
  /\ Checking(t)
  /\ client[t] = None
  /\ Checked(t, FALSE, FALSE)
  /\ UNCHANGED << authFrame, blacklist, hist >>

\* faulty variant: the count is compared with >= 0
IsBlacklistedOkAlways(t) ==
  /\ Checking(t)
  /\ client[t] # None
  /\ Checked(t, TRUE, TRUE)
  /\ UNCHANGED << authFrame, blacklist, hist >>

\* is_token_blacklisted lines 197-199: client.exists(key) > 0
IsBlacklistedOk(t) ==
  /\ Checking(t)
  /\ client[t] # None
  /\ Checked(t, Live(blacklist[call[t].jti]), TRUE)
  /\ UNCHANGED << authFrame, blacklist, hist >>

\* faulty variant: the except branch answers True (fail closed)
IsBlacklistedFailClosed(t) ==
  /\ Checking(t)
  /\ client[t] # None
  /\ Checked(t, TRUE, FALSE)
  /\ UNCHANGED << authFrame, blacklist, hist >>

\* is_token_blacklisted lines 200-202: RedisError, logged, False
IsBlacklistedFail(t) ==
  /\ Checking(t)
  /\ client[t] # None
  /\ Checked(t, FALSE, FALSE)
  /\ UNCHANGED << authFrame, blacklist, hist >>

\* logout lines 195-204: ttl = int(exp - now), then RedisService()
LogoutTtl(t) ==
  /\ pc[t] = "logout"
  /\ pc' = [pc EXCEPT ![t] = "rs_init"]
  /\ call' = [call EXCEPT ![t].ttl = Some(IntSeconds(call[t].exp * Hz - Clock)),
                          ![t].stage = "revoke"]
  /\ UNCHANGED << authFrame, client, blacklist, ret, hist >>

Revoking(t) ==
  /\ pc[t] = "call"
  /\ \/ call[t].op = "blacklist_token"
     \/ call[t].op = "logout" /\ call[t].stage = "revoke"

\* the ttl blacklist_token hands to setex (lines 180-181)
BlacklistTtl(t) ==
  IF call[t].ttl = None THEN CACHE_TTL_BLACKLIST ELSE Val(call[t].ttl)

\* what follows blacklist_token returning b: logout ignores the result and
\* answers 200 (lines 205-207)
Revoked(t, b, ok) ==
  IF call[t].op = "logout"
  THEN /\ Leave(t, "200", ok)
       /\ hist' = [hist EXCEPT !.loggedout[call[t].jti] = IF ok THEN "yes" ELSE @]
  ELSE /\ Leave(t, IF b THEN "True" ELSE "False", ok)
       /\ UNCHANGED hist

\* blacklist_token lines 175-177: no client
BlacklistUnavailable(t) ==
  /\ Revoking(t)
  /\ client[t] = None
  /\ Revoked(t, FALSE, FALSE)
  /\ UNCHANGED << authFrame, blacklist >>

\* blacklist_token lines 183-186: setex(key, ttl, "1"); redis takes a positive ttl
BlacklistSetex(t) ==
  /\ Revoking(t)
  /\ client[t] # None
  /\ BlacklistTtl(t) > 0
  /\ blacklist' = [blacklist EXCEPT ![call[t].jti] =
                     Some([until |-> Clock + BlacklistTtl(t) * Hz])]
  /\ IF call[t].op = "logout"
     THEN /\ Leave(t, "200", TRUE)
          /\ hist' = [hist EXCEPT
                        !.loggedout[call[t].jti] = "yes",
                        !.revoked[call[t].jti] =
                          Some([at |-> Clock, ttl |-> BlacklistTtl(t)])]
     ELSE /\ Leave(t, "True", TRUE)
          /\ hist' = [hist EXCEPT !.revoked[call[t].jti] =
                        Some([at |-> Clock, ttl |-> BlacklistTtl(t)])]
  /\ UNCHANGED authFrame

\* blacklist_token lines 188-190: redis refuses a ttl that is not positive
\* (ResponseError), caught as RedisError, False
BlacklistRefused(t) ==
  /\ Revoking(t)
  /\ client[t] # None
  /\ BlacklistTtl(t) <= 0
  /\ Revoked(t, FALSE, TRUE)
  /\ UNCHANGED << authFrame, blacklist >>

\* blacklist_token lines 188-190: the connection fails, RedisError, False
BlacklistFail(t) ==
  /\ Revoking(t)
  /\ client[t] # None
  /\ Revoked(t, FALSE, FALSE)
  /\ UNCHANGED << authFrame, blacklist >>

Construct(t) ==
  RsInit(t) \/ Connect(t) \/ FromUrl(t) \/ PingOk(t) \/ PingFail(t) \/ RsClient(t)

NextAuth ==
  \/ \E t \in Threads : Construct(t)
  \/ \E t \in Threads, j \in Jtis :
       \/ \E ttl \in TtlInputs : BeginBlacklist(t, "blacklist_token", j, ttl)
       \/ BeginBlacklist(t, "is_token_blacklisted", j, None)
  \/ \E t \in Threads, tok \in Jwts, op \in {"request", "logout"} :
       BeginAuth(t, op, tok)
  \/ \E t \in Threads :
       \/ IsBlacklistedUnavailable(t) \/ IsBlacklistedOk(t) \/ IsBlacklistedFail(t)
       \/ LogoutTtl(t)
       \/ BlacklistUnavailable(t) \/ BlacklistSetex(t) \/ BlacklistRefused(t)
       \/ BlacklistFail(t)
       \/ Forget(t)
  \/ Pass

SpecAuth == InitAuth /\ [][NextAuth]_vars

\* ------------------------------------------------------------ rate counters
\* window lengths a caller asks for, in seconds
Windows == {1}

rateFrame == << linkVars, now, frac, connection_attempted, instance, connects,
                blacklist, reset, queue, users >>

\* history: limit and window are the arguments every call of the run passes;
\* calls counts the calls that read the key since it last had no counter (it
\* stops counting above MaxLimit); clean says that since then every call found
\* a client, no command failed and the counter did not expire inside a call
InitRate ==
  /\ LinkIdle
  /\ redis_url \in {None, Some("redis://cache:6379")}
  /\ interleave = FALSE
  /\ frac = 0
  /\ blacklist = [j \in Jtis |-> None]
  /\ reset = [k \in Tokens |-> None]
  /\ rate = [k \in RateKeys |-> None]
  /\ queue = <<>>
  /\ users = [u \in UserIds |-> 0]
  /\ call = [t \in Threads |-> NoCall]
  /\ ret = [t \in Threads |-> None]
  /\ hist \in [limit : 1..MaxLimit, window : Windows, calls : {0}, clean : {TRUE}]

\* history kept where a specification asks for it: h with the number of
\* calls that were allowed since the key last had no counter set to n
Granted(h, n) ==
  IF "allowed" \in DOMAIN h THEN [h EXCEPT !.allowed = n] ELSE h

\* a counter is there until its TTL, if it has one, has elapsed
RateLive(e) == e # None /\ (Val(e).until = None \/ Clock < Val(Val(e).until))

\* check_rate_limit(key, limit, window) is called
BeginRate(t, k) ==
  /\ pc[t] = "idle" /\ Alone(t)
  /\ Enter(t, [op |-> "check_rate_limit", key |-> k, limit |-> hist.limit,
               window |-> hist.window, seen |-> None])
  /\ UNCHANGED << rateFrame, rate, hist >>

Limiting(t, at) == pc[t] = at /\ call[t].op = "check_rate_limit"

\* the fail-open answer
Allowed(t) == [allowed |-> TRUE, remaining |-> call[t].limit]

\* lines 254-255: no client
RateUnavailable(t) ==
  /\ Limiting(t, "call")
  /\ client[t] = None
  /\ Leave(t, Allowed(t), FALSE)
  /\ hist' = [hist EXCEPT !.clean = FALSE]
  /\ UNCHANGED << rateFrame, rate >>

\* line 259: current = client.get(rate_key)
RateGet(t) ==
  /\ Limiting(t, "call")
  /\ client[t] # None
  /\ LET e == rate[call[t].key] IN
       /\ call' = [call EXCEPT ![t].seen =
                     IF RateLive(e) THEN Some(Val(e).count) ELSE None]
       /\ hist' = IF RateLive(e)
                  THEN [hist EXCEPT !.calls = IF @ > MaxLimit THEN @ ELSE @ + 1]
                  ELSE Granted([hist EXCEPT !.calls = 1, !.clean = TRUE], 0)
  /\ pc' = [pc EXCEPT ![t] = "rate_seen"]
  /\ UNCHANGED << rateFrame, client, rate, ret >>

\* faulty variant: the except branch denies (fail closed)
RateFailClosed(t) ==
  /\ \/ Limiting(t, "call")
     \/ /\ Limiting(t, "rate_seen")
        /\ IF call[t].seen = None THEN TRUE ELSE Val(call[t].seen) < call[t].limit
  /\ client[t] # None
  /\ Leave(t, [allowed |-> FALSE, remaining |-> 0], FALSE)
  /\ hist' = [hist EXCEPT !.clean = FALSE]
  /\ UNCHANGED << rateFrame, rate >>

\* lines 272-274: a command raises RedisError: allowed, limit
RateFail(t) ==
  /\ \/ Limiting(t, "call")
     \/ /\ Limiting(t, "rate_seen")
        /\ IF call[t].seen = None THEN TRUE ELSE Val(call[t].seen) < call[t].limit
  /\ client[t] # None
  /\ Leave(t, Allowed(t), FALSE)
  /\ hist' = [hist EXCEPT !.clean = FALSE]
  /\ UNCHANGED << rateFrame, rate >>

\* lines 261-263: no counter: setex(rate_key, window, 1)
RateSetex(t) ==
  /\ Limiting(t, "rate_seen")
  /\ call[t].seen = None
  /\ rate' = [rate EXCEPT ![call[t].key] =
                Some([count |-> 1, until |-> Some(Clock + call[t].window * Hz)])]
  /\ Leave(t, [allowed |-> TRUE, remaining |-> call[t].limit - 1], TRUE)
  /\ hist' = IF "allowed" \in DOMAIN hist
             THEN Granted(hist, hist.allowed + 1) ELSE hist
  /\ UNCHANGED rateFrame

\* faulty variant: the limit test is written with > instead of >=
RateDenyLate(t) ==
  /\ Limiting(t, "rate_seen")
  /\ call[t].seen # None /\ Val(call[t].seen) >= call[t].limit
  /\ IF Val(call[t].seen) > call[t].limit
     THEN /\ Leave(t, [allowed |-> FALSE, remaining |-> 0], TRUE)
          /\ UNCHANGED rate
     ELSE /\ rate' = [rate EXCEPT ![call[t].key] =
                        IF RateLive(@) THEN Some([Val(@) EXCEPT !.count = @ + 1])
                        ELSE Some([count |-> 1, until |-> None])]
          /\ Leave(t, [allowed |-> TRUE, remaining |-> 0], TRUE)
  /\ UNCHANGED << rateFrame, hist >>

\* lines 265-267: the limit is reached
RateDeny(t) ==
  /\ Limiting(t, "rate_seen")
  /\ call[t].seen # None /\ Val(call[t].seen) >= call[t].limit
  /\ Leave(t, [allowed |-> FALSE, remaining |-> 0], TRUE)
  /\ UNCHANGED << rateFrame, rate, hist >>

\* lines 269-270: incr(rate_key); on a key that is gone incr starts it at 1
\* without a TTL
RateIncr(t) ==
  /\ Limiting(t, "rate_seen")
  /\ call[t].seen # None /\ Val(call[t].seen) < call[t].limit
  /\ LET e == rate[call[t].key] IN
       IF RateLive(e)
       THEN /\ rate' = [rate EXCEPT ![call[t].key] =
                          Some([Val(e) EXCEPT !.count = @ + 1])]
            /\ hist' = IF "allowed" \in DOMAIN hist
                       THEN Granted(hist, hist.allowed + 1) ELSE hist
       ELSE /\ rate' = [rate EXCEPT ![call[t].key] =
                          Some([count |-> 1, until |-> None])]
            /\ hist' = Granted([hist EXCEPT !.calls = 1, !.clean = FALSE], 1)
  /\ Leave(t, [allowed |-> TRUE,
               remaining |-> call[t].limit - Val(call[t].seen) - 1], TRUE)
  /\ UNCHANGED rateFrame

NextRate ==
  \/ \E t \in Threads : Construct(t)
  \/ \E t \in Threads, k \in RateKeys : BeginRate(t, k)
  \/ \E t \in Threads :
       \/ RateUnavailable(t) \/ RateGet(t) \/ RateFail(t)
       \/ RateSetex(t) \/ RateDeny(t) \/ RateIncr(t)
       \/ Forget(t)
  \/ Pass

SpecRate == InitRate /\ [][NextRate]_vars

\* the same calls made by request threads that run concurrently
InitRace ==
  /\ LinkIdle
  /\ redis_url \in {None, Some("redis://cache:6379")}
  /\ interleave = TRUE
  /\ frac = 0
  /\ blacklist = [j \in Jtis |-> None]
  /\ reset = [k \in Tokens |-> None]
  /\ rate = [k \in RateKeys |-> None]
  /\ queue = <<>>
  /\ users = [u \in UserIds |-> 0]
  /\ call = [t \in Threads |-> NoCall]
  /\ ret = [t \in Threads |-> None]
  /\ hist \in [limit : 1..MaxLimit, window : Windows, calls : {0},
               clean : {TRUE}, allowed : {0}]

SpecRace == InitRace /\ [][NextRate]_vars

\* ------------------------------------------- reset tokens and reset_password
\* the token the requests of a run present, ttl arguments of store_reset_token,
\* and the new password a redemption sends
ResetInputs == {"tokA"}
StoreTtls == {None, Some(1)}
Passwords == {"pw1"}

resetFrame == << linkVars, now, frac, connection_attempted, instance, connects,
                 blacklist, rate, queue >>

\* history: stored is the last successful store of the token, gone in it
\* whether a successful delete has followed; redeemed counts the password
\* commits made under that store (it stops counting at 2)
InitReset ==
  /\ LinkIdle
  /\ redis_url \in {None, Some("redis://cache:6379")}
  /\ interleave = FALSE
  /\ frac = 0
  /\ blacklist = [j \in Jtis |-> None]
  /\ reset = [k \in Tokens |-> None]
  /\ rate = [k \in RateKeys |-> None]
  /\ queue = <<>>
  /\ users = [u \in UserIds |-> "pw0"]
  /\ call = [t \in Threads |-> NoCall]
  /\ ret = [t \in Threads |-> None]
  /\ hist = [stored |-> [k \in Tokens |-> None],
             redeemed |-> [k \in Tokens |-> 0]]

\* a caller invokes store_reset_token, get_reset_token_user or
\* invalidate_reset_token
BeginReset(t, op, k, u, ttl) ==
  /\ Quiet
  /\ pc[t] = "idle" /\ Alone(t)
  /\ Enter(t, [op |-> op, token |-> k, user |-> u, ttl |-> ttl, password |-> ""])
  /\ UNCHANGED << resetFrame, reset, users, hist >>

\* POST /password/reset with a token and a valid password (lines 338-357);
\* such requests run concurrently with one another
BeginRedeem(t, k, pw) ==
  /\ Quiet
  /\ pc[t] = "idle"
  /\ \A q \in Threads \ {t} : pc[q] = "idle" \/ call[q].op = "reset_password"
  /\ Enter(t, [op |-> "reset_password", token |-> k, user |-> "", ttl |-> None,
               password |-> pw])
  /\ UNCHANGED << resetFrame, reset, users, hist >>

\* POST /password/forgot for the email of user u (lines 283-304): the handler
\* draws a fresh token k and constructs a RedisService
BeginForgot(t, k, u) ==
  /\ Quiet
  /\ pc[t] = "idle" /\ Alone(t)
  /\ reset[k] = None
  /\ Enter(t, [op |-> "forgot_password", token |-> k, user |-> u, ttl |-> None,
               password |-> ""])
  /\ UNCHANGED << resetFrame, reset, users, hist >>

Storing(t) ==
  /\ Quiet
  /\ pc[t] = "call"
  /\ call[t].op \in {"store_reset_token", "forgot_password"}

\* what follows store_reset_token returning b: forgot_password ignores the
\* result and goes on to the email (lines 304-317)
Stored(t, b, ok) ==
  IF call[t].op = "store_reset_token"
  THEN Leave(t, IF b THEN "True" ELSE "False", ok)
  ELSE /\ pc' = [pc EXCEPT ![t] = "send_email"]
       /\ UNCHANGED << client, call, ret >>

\* the ttl store_reset_token hands to setex (lines 213-214)
StoreTtl(t) ==
  IF call[t].ttl = None THEN PASSWORD_RESET_TOKEN_EXPIRES ELSE Val(call[t].ttl)

\* store_reset_token lines 208-210: no client
StoreUnavailable(t) ==
  /\ Storing(t)
  /\ client[t] = None
  /\ Stored(t, FALSE, FALSE)
  /\ UNCHANGED << resetFrame, reset, users, hist >>

\* store_reset_token lines 216-218: setex(key, ttl, user_id)
StoreSetex(t) ==
  /\ Storing(t)
  /\ client[t] # None
  /\ reset' = [reset EXCEPT ![call[t].token] =
                 Some([user |-> call[t].user, until |-> Clock + StoreTtl(t) * Hz])]
  /\ hist' = [hist EXCEPT
                !.stored[call[t].token] =
                  Some([user |-> call[t].user, at |-> Clock, ttl |-> StoreTtl(t),
                        gone |-> FALSE]),
                !.redeemed[call[t].token] = 0]
  /\ Stored(t, TRUE, TRUE)
  /\ UNCHANGED << resetFrame, users >>

\* store_reset_token lines 220-222: RedisError, False
StoreFail(t) ==
  /\ Storing(t)
  /\ client[t] # None
  /\ Stored(t, FALSE, FALSE)
  /\ UNCHANGED << resetFrame, reset, users, hist >>

\* forgot_password lines 310-315: send_password_reset_email(reset_token)
SendResetEmail(t) ==
  /\ Quiet
  /\ pc[t] = "send_email"
  /\ Leave(t, "200 sent", TRUE)
  /\ UNCHANGED << resetFrame, reset, users, hist >>

\* forgot_password lines 319-322: the email service raises, logged, 200
SendResetEmailFail(t) ==
  /\ Quiet
  /\ pc[t] = "send_email"
  /\ Leave(t, "200", TRUE)
  /\ UNCHANGED << resetFrame, reset, users, hist >>

Resolving(t) ==
  /\ Quiet
  /\ pc[t] = "call"
  /\ call[t].op \in {"get_reset_token_user", "reset_password"}

\* what follows get_reset_token_user returning uid: reset_password answers 400
\* for None (lines 360-361) and goes on to the user otherwise
Resolved(t, uid, ok) ==
  IF call[t].op = "get_reset_token_user"
  THEN Leave(t, IF uid = None THEN "None" ELSE Val(uid), ok)
  ELSE IF uid = None
  THEN Leave(t, "400", ok)
  ELSE /\ pc' = [pc EXCEPT ![t] = "redeem_commit"]
       /\ call' = [call EXCEPT ![t].user = Val(uid)]
       /\ UNCHANGED << client, ret >>

\* get_reset_token_user lines 226-227: no client
GetResetUnavailable(t) ==
  /\ Resolving(t)
  /\ client[t] = None
  /\ Resolved(t, None, FALSE)
  /\ UNCHANGED << resetFrame, reset, users, hist >>

\* faulty variant: the read deletes the key
GetResetOkConsumes(t) ==
  /\ Resolving(t)
  /\ client[t] # None
  /\ LET e == reset[call[t].token] IN
       Resolved(t, IF Live(e) THEN Some(Val(e).user) ELSE None, TRUE)
  /\ reset' = [reset EXCEPT ![call[t].token] = None]
  /\ UNCHANGED << resetFrame, users, hist >>

\* get_reset_token_user lines 229-232: client.get(key)
GetResetOk(t) ==
  /\ Resolving(t)
  /\ client[t] # None
  /\ LET e == reset[call[t].token] IN
       Resolved(t, IF Live(e) THEN Some(Val(e).user) ELSE None, TRUE)
  /\ UNCHANGED << resetFrame, reset, users, hist >>

\* get_reset_token_user lines 233-235: RedisError, None
GetResetFail(t) ==
  /\ Resolving(t)
  /\ client[t] # None
  /\ Resolved(t, None, FALSE)
  /\ UNCHANGED << resetFrame, reset, users, hist >>

\* reset_password lines 364-370: the user is found, set_password, commit
RedeemCommit(t) ==
  /\ Quiet
  /\ pc[t] = "redeem_commit"
  /\ users' = [users EXCEPT ![call[t].user] = call[t].password]
  /\ hist' = [hist EXCEPT !.redeemed[call[t].token] = IF @ < 2 THEN @ + 1 ELSE @]
  /\ pc' = [pc EXCEPT ![t] = "redeem_invalidate"]
  /\ UNCHANGED << resetFrame, client, reset, call, ret >>

\* reset_password lines 377-380: the commit raises, rollback, 500
RedeemCommitFail(t) ==
  /\ Quiet
  /\ pc[t] = "redeem_commit"
  /\ Leave(t, "500", TRUE)
  /\ UNCHANGED << resetFrame, reset, users, hist >>

Invalidating(t) ==
  /\ Quiet
  /\ \/ pc[t] = "call" /\ call[t].op = "invalidate_reset_token"
     \/ pc[t] = "redeem_invalidate"

\* what follows invalidate_reset_token returning b: reset_password ignores the
\* result and answers 200 (lines 373-375)
Invalidated(t, b, ok) ==
  Leave(t, IF call[t].op = "reset_password" THEN "200"
           ELSE IF b THEN "True" ELSE "False", ok)

\* invalidate_reset_token lines 239-240: no client
InvalidateResetUnavailable(t) ==
  /\ Invalidating(t)
  /\ client[t] = None
  /\ Invalidated(t, FALSE, FALSE)
  /\ UNCHANGED << resetFrame, reset, users, hist >>

\* invalidate_reset_token lines 242-245: client.delete(key)
InvalidateResetOk(t) ==
  /\ Invalidating(t)
  /\ client[t] # None
  /\ reset' = [reset EXCEPT ![call[t].token] = None]
  /\ hist' = [hist EXCEPT !.stored[call[t].token] =
                IF @ = None THEN @ ELSE Some([Val(@) EXCEPT !.gone = TRUE])]
  /\ Invalidated(t, TRUE, TRUE)
  /\ UNCHANGED << resetFrame, users >>

\* invalidate_reset_token lines 246-248: RedisError, False
InvalidateResetFail(t) ==
  /\ Invalidating(t)
  /\ client[t] # None
  /\ Invalidated(t, FALSE, FALSE)
  /\ UNCHANGED << resetFrame, reset, users, hist >>

NextReset ==
  \/ \E t \in Threads : Construct(t)
  \/ \E t \in Threads, k \in ResetInputs :
       \/ \E u \in UserIds, ttl \in StoreTtls :
            BeginReset(t, "store_reset_token", k, u, ttl)
       \/ BeginReset(t, "get_reset_token_user", k, "", None)
       \/ BeginReset(t, "invalidate_reset_token", k, "", None)
       \/ \E pw \in Passwords : BeginRedeem(t, k, pw)
       \/ \E u \in UserIds : BeginForgot(t, k, u)
  \/ \E t \in Threads :
       \/ StoreUnavailable(t) \/ StoreSetex(t) \/ StoreFail(t)
       \/ SendResetEmail(t) \/ SendResetEmailFail(t)
       \/ GetResetUnavailable(t) \/ GetResetOk(t) \/ GetResetFail(t)
       \/ RedeemCommit(t) \/ RedeemCommitFail(t)
       \/ InvalidateResetUnavailable(t) \/ InvalidateResetOk(t)
       \/ InvalidateResetFail(t)
       \/ Forget(t)
  \/ Pass

SpecReset == InitReset /\ [][NextReset]_vars

\* ------------------------------------------------------------- click queue
\* slugs pushed, batch_size arguments, and the longest queue the model holds
QueueSlugs == {"s1", "s2"}
BatchSizes == {2}
MaxQueue == 2

queueFrame == << linkVars, now, frac, connection_attempted, instance, connects,
                 blacklist, reset, rate, users, hist >>

\* queue_click_increment(slug) or get_pending_clicks(batch_size) is called
BeginQueue(t, op, s, n) ==
  /\ Quiet
  /\ pc[t] = "idle" /\ Alone(t)
  /\ Enter(t, [op |-> op, slug |-> s, batch |-> n, clicks |-> <<>>])
  /\ UNCHANGED << queueFrame, queue >>

Pushing(t) == Quiet /\ pc[t] = "call" /\ call[t].op = "queue_click_increment"

\* queue_click_increment lines 144-145: no client
QueueUnavailable(t) ==
  /\ Pushing(t)
  /\ client[t] = None
  /\ Leave(t, "False", FALSE)
  /\ UNCHANGED << queueFrame, queue >>

\* queue_click_increment lines 147-149: rpush
QueueRpush(t) ==
  /\ Pushing(t)
  /\ client[t] # None
  /\ Len(queue) < MaxQueue
  /\ queue' = Append(queue, call[t].slug)
  /\ Leave(t, "True", TRUE)
  /\ UNCHANGED queueFrame

\* queue_click_increment lines 150-152: RedisError, False
QueueFail(t) ==
  /\ Pushing(t)
  /\ client[t] # None
  /\ Leave(t, "False", FALSE)
  /\ UNCHANGED << queueFrame, queue >>

Draining(t) == Quiet /\ pc[t] = "call" /\ call[t].op = "get_pending_clicks"

\* get_pending_clicks lines 156-157: no client
DrainUnavailable(t) ==
  /\ Draining(t)
  /\ client[t] = None
  /\ Leave(t, <<>>, FALSE)
  /\ UNCHANGED << queueFrame, queue >>

\* get_pending_clicks lines 161-165: one turn of the loop pops a slug
DrainLpop(t) ==
  /\ Draining(t)
  /\ client[t] # None
  /\ Len(call[t].clicks) < call[t].batch
  /\ queue # <<>>
  /\ queue' = Tail(queue)
  /\ call' = [call EXCEPT ![t].clicks = Append(@, Head(queue))]
  /\ UNCHANGED << queueFrame, pc, client, ret >>

\* get_pending_clicks lines 161-166: the batch is full or lpop answers None
DrainReturn(t) ==
  /\ Draining(t)
  /\ client[t] # None
  /\ Len(call[t].clicks) >= call[t].batch \/ queue = <<>>
  /\ Leave(t, call[t].clicks, TRUE)
  /\ UNCHANGED << queueFrame, queue >>

\* get_pending_clicks lines 167-169: an lpop raises RedisError, []
DrainFail(t) ==
  /\ Draining(t)
  /\ client[t] # None
  /\ Len(call[t].clicks) < call[t].batch
  /\ Leave(t, <<>>, FALSE)
  /\ UNCHANGED << queueFrame, queue >>

\* request threads push clicks and drain the queue, concurrently or one after
\* another
InitQueue ==
  /\ LinkIdle
  /\ redis_url \in {None, Some("redis://cache:6379")}
  /\ interleave \in {TRUE, FALSE}
  /\ SubIdle

NextQueue ==
  \/ \E t \in Threads : Construct(t)
  \/ \E t \in Threads :
       \/ \E s \in QueueSlugs : BeginQueue(t, "queue_click_increment", s, 0)
       \/ \E n \in BatchSizes : BeginQueue(t, "get_pending_clicks", "", n)
  \/ \E t \in Threads :
       \/ QueueUnavailable(t) \/ QueueRpush(t) \/ QueueFail(t)
       \/ DrainUnavailable(t) \/ DrainLpop(t) \/ DrainReturn(t) \/ DrainFail(t)
       \/ Forget(t)

SpecQueue == InitQueue /\ [][NextQueue]_vars

\* ---------------------------------- concurrent first uses of RedisService
\* threads construct RedisService concurrently and call one sub-store operation
\* each; the model follows the process while nothing is stored in the cache yet
Untouched ==
  /\ \A j \in Jtis : blacklist[j] = None
  /\ \A k \in Tokens : reset[k] = None
  /\ \A k \in RateKeys : rate[k] = None
  /\ queue = <<>>

InitCtor ==
  /\ LinkIdle
  /\ redis_url \in {None, Some("redis://cache:6379")}
  /\ interleave = TRUE
  /\ frac = 0
  /\ blacklist = [j \in Jtis |-> None]
  /\ reset = [k \in Tokens |-> None]
  /\ rate = [k \in RateKeys |-> None]
  /\ queue = <<>>
  /\ users = [u \in UserIds |-> "pw0"]
  /\ call = [t \in Threads |-> NoCall]
  /\ ret = [t \in Threads |-> None]
  /\ hist \in [revoked : {[j \in Jtis |-> None]},
               loggedout : {[j \in Jtis |-> "no"]},
               stored : {[k \in Tokens |-> None]},
               redeemed : {[k \in Tokens |-> 0]},
               limit : {1, 2}, window : Windows, calls : {0}, clean : {TRUE}]

NextCtor ==
  \/ \E t \in Threads : Construct(t)
  \/ \E t \in Threads :
       /\ Untouched
       /\ \/ BeginBlacklist(t, "blacklist_token", "jti1", Some(1))
          \/ BeginBlacklist(t, "is_token_blacklisted", "jti1", None)
          \/ BeginReset(t, "store_reset_token", "tokA", "u1", None)
          \/ BeginReset(t, "get_reset_token_user", "tokA", "", None)
          \/ BeginReset(t, "invalidate_reset_token", "tokA", "", None)
          \/ \E k \in RateKeys : BeginRate(t, k)
          \/ BeginQueue(t, "queue_click_increment", "s1", 0)
          \/ \E n \in BatchSizes : BeginQueue(t, "get_pending_clicks", "", n)
  \/ \E t \in Threads :
       \/ IsBlacklistedUnavailable(t) \/ IsBlacklistedOk(t) \/ IsBlacklistedFail(t)
       \/ BlacklistUnavailable(t) \/ BlacklistSetex(t) \/ BlacklistFail(t)
       \/ StoreUnavailable(t) \/ StoreSetex(t) \/ StoreFail(t)
       \/ GetResetUnavailable(t) \/ GetResetOk(t) \/ GetResetFail(t)
       \/ InvalidateResetUnavailable(t) \/ InvalidateResetOk(t)
       \/ InvalidateResetFail(t)
       \/ RateUnavailable(t) \/ RateGet(t) \/ RateFail(t)
       \/ RateSetex(t) \/ RateDeny(t) \/ RateIncr(t)
       \/ QueueUnavailable(t) \/ QueueRpush(t) \/ QueueFail(t)
       \/ DrainUnavailable(t) \/ DrainLpop(t) \/ DrainReturn(t) \/ DrainFail(t)
       \/ Forget(t)

SpecCtor == InitCtor /\ [][NextCtor]_vars

\* ------------------------------------------- the three accessibility checks
\* instants a record can expire at and be looked at
MaxInstant == 2
Instants == 0..MaxInstant

\* a record and an instant are drawn; the checks of the code are applied to
\* them one by one and their answers kept in hist
InitAccess ==
  /\ LinkIdle
  /\ redis_url = None
  /\ interleave = FALSE
  /\ frac = 0
  /\ blacklist = [j \in Jtis |-> None]
  /\ reset = [k \in Tokens |-> None]
  /\ rate = [k \in RateKeys |-> None]
  /\ queue = <<>>
  /\ users = [u \in UserIds |-> 0]
  /\ call = [t \in Threads |-> NoCall]
  /\ ret = [t \in Threads |-> None]
  /\ \E active \in BOOLEAN, exp \in {None} \cup {Some(e) : e \in Instants},
        t \in Instants :
       hist = [link |-> [NewLink(<<"g","o","t","o">>, "https://a.example", exp)
                           EXCEPT !.is_active = active],
               t |-> t, accessible |-> None, db |-> None, gcl |-> None,
               hit |-> None]

\* Link.is_accessible (link.py lines 71-74)
ApplyIsAccessible ==
  /\ hist.accessible = None
  /\ hist' = [hist EXCEPT !.accessible = Some(IsAccessible(hist.link, hist.t))]
  /\ UNCHANGED << linkVars, now, connection_attempted, instance, connects, pc,
                  client, frac, blacklist, reset, rate, queue, users, call, ret >>

\* the durable-record check of redirect_short_url (lines 122-135)
ApplyDbVerdict ==
  /\ hist.db = None
  /\ hist' = [hist EXCEPT !.db = Some(DbVerdict(Some(hist.link), hist.t))]
  /\ UNCHANGED << linkVars, now, connection_attempted, instance, connects, pc,
                  client, frac, blacklist, reset, rate, queue, users, call, ret >>

\* the expiry check of get_cached_link (lines 108-113) on the record's cached dict
ApplyCachedExpired ==
  /\ hist.gcl = None
  /\ hist' = [hist EXCEPT
                !.gcl = Some(CachedExpired(ToCacheDict(hist.link), hist.t))]
  /\ UNCHANGED << linkVars, now, connection_attempted, instance, connects, pc,
                  client, frac, blacklist, reset, rate, queue, users, call, ret >>

\* the cache-hit check of redirect_short_url (lines 92-105) on the cached dict
ApplyHitVerdict ==
  /\ hist.hit = None
  /\ hist' = [hist EXCEPT
                !.hit = Some(HitVerdict(ToCacheDict(hist.link), hist.t))]
  /\ UNCHANGED << linkVars, now, connection_attempted, instance, connects, pc,
                  client, frac, blacklist, reset, rate, queue, users, call, ret >>

NextAccess ==
  ApplyIsAccessible \/ ApplyDbVerdict \/ ApplyCachedExpired \/ ApplyHitVerdict

SpecAccess == InitAccess /\ [][NextAccess]_vars

\* ------------------------------------------------- the redis key namespaces
\* Every sub-store operation builds its redis key from its argument.  In this
\* specification cache holds the whole redis keyspace, keyed by the full key,
\* and hist names the sub-store whose operation ran last.
KeyPrefix == <<"c","i","n","b","r","a","i","n","l","i","n","k","s",":">>

\* f"cinbrainlinks:link:{slug}"
LinkKey(s) == KeyPrefix \o <<"l","i","n","k",":">> \o s
\* f"cinbrainlinks:blacklist:{jti}"
BlacklistKey(j) == KeyPrefix \o <<"b","l","a","c","k","l","i","s","t",":">> \o j
\* f"cinbrainlinks:reset:{token}"
ResetKey(k) == KeyPrefix \o <<"r","e","s","e","t",":">> \o k
\* faulty variant: the rate key is built without its namespace
RateKeyNoNamespace(k) == KeyPrefix \o k
\* f"cinbrainlinks:rate:{key}"
RateKey(k) == KeyPrefix \o <<"r","a","t","e",":">> \o k
\* "cinbrainlinks:click_queue"
ClickQueueKey == KeyPrefix \o <<"c","l","i","c","k","_","q","u","e","u","e">>

\* argument values: a plain one and one that spells another namespace
KeyArgs == { <<"x">>, <<"l","i","n","k",":","x">> }

Namespaces == {"link", "blacklist", "reset", "rate", "queue"}

\* the keys a sub-store's operations build
NsKeys(n) ==
  CASE n = "link"      -> {LinkKey(a) : a \in KeyArgs}
    [] n = "blacklist" -> {BlacklistKey(a) : a \in KeyArgs}
    [] n = "reset"     -> {ResetKey(a) : a \in KeyArgs}
    [] n = "rate"      -> {RateKey(a) : a \in KeyArgs}
    [] OTHER           -> {ClickQueueKey}

AllKeys == UNION {NsKeys(n) : n \in Namespaces}

InitKeys ==
  /\ now = 0
  /\ connection_attempted = FALSE
  /\ instance = None
  /\ connects = 0
  /\ db = [k \in Keys |-> None]
  /\ cache = [k \in AllKeys |-> None]
  /\ tasks = EmptyBag
  /\ pc = [p \in Procs |-> "idle"]
  /\ slug = [p \in Procs |-> <<>>]
  /\ client = [p \in Procs |-> None]
  /\ link_data = [p \in Resolvers |-> None]
  /\ link = [p \in Resolvers |-> None]
  /\ response = [p \in Resolvers |-> None]
  /\ hook = [p \in Mutators |-> "none"]
  /\ log = [p \in Resolvers |-> EmptyLog]
  /\ world = [p \in Resolvers |-> "other"]
  /\ redis_url = Some("redis://cache:6379")
  /\ interleave = FALSE
  /\ frac = 0
  /\ blacklist = [j \in Jtis |-> None]
  /\ reset = [k \in Tokens |-> None]
  /\ rate = [k \in RateKeys |-> None]
  /\ queue = <<>>
  /\ users = [u \in UserIds |-> 0]
  /\ call = [t \in Threads |-> NoCall]
  /\ ret = [t \in Threads |-> None]
  /\ hist = [ns |-> "none"]

keysFrame == << now, redis_url, connection_attempted, instance, db, tasks, pc,
                slug, client, link_data, link, response, hook, log, world,
                interleave, connects, frac, blacklist, reset, rate, queue,
                users, call, ret >>

\* the operation of sub-store n leaves the keyspace as c
KeyOp(n, c) ==
  /\ cache' = c
  /\ hist' = [ns |-> n]
  /\ UNCHANGED keysFrame

\* SET-with-TTL of a string value
KeySetex(k, v) == [cache EXCEPT ![k] = Some([kind |-> "string", v |-> v])]
\* DELETE
KeyDelete(k) == [cache EXCEPT ![k] = None]

\* cache_link line 88
KeyCacheLink(s) == KeyOp("link", KeySetex(LinkKey(s), "link_data"))
\* invalidate_link_cache line 132 (also the expired branch of get_cached_link)
KeyInvalidateLink(s) == KeyOp("link", KeyDelete(LinkKey(s)))
\* blacklist_token line 184
KeyBlacklistToken(j) == KeyOp("blacklist", KeySetex(BlacklistKey(j), "1"))
\* store_reset_token line 217
KeyStoreReset(k, u) == KeyOp("reset", KeySetex(ResetKey(k), u))
\* invalidate_reset_token line 244
KeyInvalidateReset(k) == KeyOp("reset", KeyDelete(ResetKey(k)))

\* check_rate_limit lines 259-270: setex 1 when GET finds nothing, else int()
\* of the value and incr below the limit; a value that is no number raises and
\* the except branch returns
KeyRateLimit(k, limit) ==
  LET e == cache[RateKey(k)] IN
  KeyOp("rate",
        IF e = None THEN [cache EXCEPT ![RateKey(k)] = Some([kind |-> "int", v |-> 1])]
        ELSE IF Val(e).kind # "int" THEN cache
        ELSE IF Val(e).v >= limit THEN cache
        ELSE [cache EXCEPT ![RateKey(k)] = Some([kind |-> "int", v |-> Val(e).v + 1])])

\* queue_click_increment line 148: rpush; a key that holds no list raises
KeyQueuePush(s) ==
  LET e == cache[ClickQueueKey] IN
  /\ e # None /\ Val(e).kind = "list" => Len(Val(e).v) < MaxQueue
  /\ KeyOp("queue",
           IF e = None
           THEN [cache EXCEPT ![ClickQueueKey] = Some([kind |-> "list", v |-> <<s>>])]
           ELSE IF Val(e).kind # "list" THEN cache
           ELSE [cache EXCEPT ![ClickQueueKey] =
                   Some([kind |-> "list", v |-> Append(Val(e).v, s)])])

\* get_pending_clicks line 162: one lpop; redis drops a list that became empty
KeyQueuePop ==
  LET e == cache[ClickQueueKey] IN
  KeyOp("queue",
        IF e = None \/ Val(e).kind # "list" THEN cache
        ELSE IF Len(Val(e).v) = 1 THEN KeyDelete(ClickQueueKey)
        ELSE [cache EXCEPT ![ClickQueueKey] =
                Some([kind |-> "list", v |-> Tail(Val(e).v)])])

NextKeys ==
  \/ \E a \in KeyArgs :
       \/ KeyCacheLink(a) \/ KeyInvalidateLink(a)
       \/ KeyBlacklistToken(a)
       \/ \E u \in UserIds : KeyStoreReset(a, u)
       \/ KeyInvalidateReset(a)
       \/ \E limit \in 1..MaxLimit : KeyRateLimit(a, limit)
  \/ \E s \in QueueSlugs : KeyQueuePush(s)
  \/ KeyQueuePop

SpecKeys == InitKeys /\ [][NextKeys]_vars

\* =================================================================== claims
Done(p) == pc[p] = "done"
Resp(p) == Val(response[p])
Gone(msg) == Error(410, msg)

\* the response the cache-miss path gives for what the links table says
MissOutcome(v, url) ==
  CASE v = "notfound" -> Error(404, "Link not found")
    [] v = "disabled" -> Gone("This link has been disabled")
    [] v = "expired"  -> Gone("This link has expired")
    [] OTHER          -> Redirect(url)

\* C1: a link whose durable row is active and not expired throughout the call
\* is answered with a redirect to the row's original_url, on a cache hit and on
\* a cold cache (a failed durable lookup, the server error of C9, set aside).
C1_AccessibleRedirects ==
  \A p \in Resolvers :
    (Done(p) /\ world[p] \in Accessible /\ ~log[p].dbFault)
      => Resp(p) = Redirect(Val(db[slug[p]]).original_url)

\* C2 as stated: a slug with neither a durable row nor a cache entry is answered
\* 404, nothing is written to the cache and no click is dispatched.
C2_AbsentIsNotFound ==
  \A p \in Resolvers :
    (Done(p) /\ world[p] = "absent")
      => /\ Resp(p).status = 404
         /\ log[p].setex = 0
         /\ log[p].started = 0

\* C2 amended: the 404 is given when the slug is not empty after normalization
\* and the durable lookup does not fail (empty: 400, failed lookup: 500); in
\* every case nothing is written to the cache and no click is dispatched.
C2_AbsentIsNotFoundAmended ==
  \A p \in Resolvers :
    (Done(p) /\ world[p] = "absent")
      => /\ (slug[p] # <<>> /\ ~log[p].dbFault) => Resp(p).status = 404
         /\ slug[p] = <<>> => Resp(p).status = 400
         /\ log[p].dbFault => Resp(p).status = 500
         /\ log[p].setex = 0
         /\ log[p].started = 0
         /\ slug[p] \in Keys => cache[slug[p]] = None

C2_Witness ==
  \E p \in Resolvers :
    /\ Done(p) /\ world[p] = "absent" /\ slug[p] \notin RESERVED_SLUGS
    /\ log[p].query = 1 /\ Resp(p) = Error(404, "Link not found")

C4_CacheFaultIsMiss ==
  \A p \in Resolvers :
    (Done(p) /\ log[p].cacheFault /\ ~log[p].dbFault /\ ~log[p].startFault)
      => Resp(p) = MissOutcome(log[p].dbv, log[p].dburl)

\* C4 amended: the cache failure never reaches the caller; the answer is the
\* cache-miss path's answer, except that a DELETE failing at the resolver's own
\* invalidation (line 102) leaves the Gone(expired) read off the snapshot.
C4_CacheFaultIsMissAmended ==
  \A p \in Resolvers :
    (Done(p) /\ log[p].cacheFault /\ ~log[p].dbFault /\ ~log[p].startFault)
      => /\ Resp(p).status # 500
         /\ \/ log[p].query = 1 /\ Resp(p) = MissOutcome(log[p].dbv, log[p].dburl)
            \/ /\ log[p].query = 0 /\ log[p].get = 1 /\ log[p].del = 1
               /\ Resp(p) = Gone("This link has expired")

C4_Witness ==
  \E p \in Resolvers :
    /\ Done(p) /\ log[p].cacheFault /\ log[p].get = 1 /\ log[p].query = 1
    /\ world[p] \in Accessible
    /\ Resp(p) = Redirect(Val(db[slug[p]]).original_url)

\* C5: a call that starts on an entry written by an earlier call's write-back,
\* with the link unchanged and unexpired and the cache reachable, is answered
\* from the cache: it makes no durable-store lookup.
C5_WarmServedFromCache ==
  \A p \in Resolvers :
    (Done(p) /\ world[p] = "warm" /\ ~log[p].cacheFault)
      => /\ log[p].query = 0
         /\ Resp(p) = Redirect(Val(db[slug[p]]).original_url)

\* C6: a call answered with a redirect started exactly one click thread, for
\* the normalized slug; a call answered otherwise started none.
C6_OneDispatchPerRedirect ==
  \A p \in Resolvers :
    Done(p) =>
      IF Resp(p).status = 302
      THEN /\ log[p].started = 1
           /\ slug[p] = Normalize(log[p].raw)
           /\ \E t \in BagToSet(tasks) : t.slug = slug[p] /\ t.stage = "query"
      ELSE log[p].started = 0

C6_Witness ==
  \E p \in Resolvers :
    /\ Done(p) /\ Resp(p).status = 302 /\ log[p].startFault
    /\ log[p].started = 1 /\ log[p].query = 1

\* C7: a call issues at most one SETEX and at most one DELETE; no step of a
\* resolver changes the links table; a step that changes it is a CRUD commit or
\* a click thread raising one row's clicks by one.
C7_Frame ==
  [][ /\ \A p \in Resolvers : log'[p].setex <= 1 /\ log'[p].del <= 1
      /\ (\E p \in Resolvers : pc'[p] # pc[p]) => db' = db
      /\ db' # db =>
           \/ \E m \in Mutators : pc'[m] # pc[m]
           \/ \E k \in Keys :
                /\ db[k] # None /\ db'[k] # None
                /\ db' = [db EXCEPT ![k] = Some([Val(@) EXCEPT !.clicks = @ + 1])]
    ]_vars

C7_Witness ==
  \E p \in Resolvers :
    /\ Done(p) /\ log[p].setex = 1 /\ log[p].del = 1 /\ Resp(p).status = 302

\* C8: a call that reached the dispatch step answers with its redirect,
\* whether or not the click thread could be started.
C8_ClickNeverFailsResolve ==
  \A p \in Resolvers :
    (Done(p) /\ (log[p].started > 0 \/ log[p].startFault) /\ ~log[p].dbFault)
      => Resp(p).status = 302

\* C9: a failed durable lookup ends the call in a server error with no cache
\* write-back and no click, and nothing else ends a call in a server error.
C9_OnlyDbFailureSurfaces ==
  \A p \in Resolvers :
    Done(p) =>
      /\ log[p].dbFault =>
           Resp(p).status = 500 /\ log[p].setex = 0 /\ log[p].started = 0
      /\ Resp(p).status = 500 => log[p].dbFault

\* C10: a raw slug whose normalized form is reserved is answered 404 without a
\* RedisService being built, without GET, SETEX or DELETE, without a durable
\* lookup and without a click; no cache slot ever holds a reserved slug.
C10_ReservedTouchesNothing ==
  \A p \in Resolvers :
    (Done(p) /\ Lower(Strip(log[p].raw)) \in RESERVED_SLUGS)
      => /\ Resp(p) = Error(404, "Not found")
         /\ log[p].ctor = 0 /\ log[p].get = 0 /\ log[p].setex = 0
         /\ log[p].del = 0 /\ log[p].query = 0 /\ log[p].started = 0
         /\ cache[Lower(Strip(log[p].raw))] = None

C10_Witness ==
  \E p \in Resolvers :
    /\ Done(p) /\ log[p].raw = <<"A","d","m","i","n"," ">>
    /\ slug[p] = <<"a","d","m","i","n">> /\ Resp(p).status = 404

\* C11: a step in which a links handler commits leaves the handler on its way
\* to the cache hook for the committed slug (rewrite for a row that exists,
\* delete for a deleted row) with the cache untouched by the commit; the
\* handler returns only from the hook; a hook step with a client either leaves
\* the cache alone (the command failed) or leaves exactly the committed row's
\* projection, respectively no entry; a handler that did not commit changes no
\* cache entry, and no row changes without a handler on its way to the hook
\* (other than by a click thread).
C11_HookFollowsCommit ==
  [][ \A m \in Mutators :
        /\ (pc'[m] # pc[m] /\ db' # db) =>
             /\ pc[m] = "idle" /\ pc'[m] = "rs_init" /\ cache' = cache
             /\ \E k \in Keys :
                  /\ db' = [db EXCEPT ![k] = db'[k]]
                  /\ slug'[m] = k
                  /\ hook'[m] = IF db'[k] = None THEN "del" ELSE "set"
        /\ (pc[m] # "idle" /\ pc'[m] # "idle") =>
             /\ hook'[m] = hook[m] /\ slug'[m] = slug[m]
             /\ pc'[m] # pc[m] => cache' = cache
        /\ (pc[m] # "idle" /\ pc'[m] = "idle") =>
             /\ pc[m] = "hook" /\ hook[m] \in {"set", "del"} /\ db' = db
             /\ \/ cache' = cache
                \/ /\ client[m] # None
                   /\ cache' = [cache EXCEPT ![slug[m]] = cache'[slug[m]]]
                   /\ IF hook[m] = "del" THEN cache'[slug[m]] = None
                      ELSE /\ cache'[slug[m]] # None
                           /\ Val(cache'[slug[m]]).value
                                = ToCacheDict(Val(db[slug[m]]))
        /\ (pc[m] = "idle" /\ pc'[m] = "idle") =>
             /\ cache' # cache =>
                  \/ now' # now
                  \/ \E p \in Resolvers : pc'[p] # pc[p]
             /\ db' # db => tasks' # tasks
    ]_vars

C11_Witness ==
  \E m \in Mutators, k \in Keys :
    /\ pc[m] = "idle" /\ db[k] # None /\ ~Val(db[k]).is_active
    /\ cache[k] # None /\ Val(cache[k]).by = "crud"
    /\ Val(cache[k]).value = ToCacheDict(Val(db[k]))

\* a thread's answer, and whether the blacklist check in this step said revoked
Answered(t) == pc'[t] = "done" /\ pc[t] # "done"
SaidRevoked(t) == Val(ret'[t]).v \in {"True", "401 revoked"}

\* C12: with a client and no failing command, a blacklist check made after a
\* successful blacklist_token(jti, ttl) answers revoked exactly while fewer than
\* ttl seconds have passed since that write, and no step ever removes a
\* blacklist entry: the answer turns false by the TTL alone.
C12_RevokedUntilTtl ==
  [][ /\ \A t \in Threads :
           (Checking(t) /\ Answered(t) /\ Val(ret'[t]).ok
              /\ hist.revoked[call[t].jti] # None)
             => LET r == Val(hist.revoked[call[t].jti]) IN
                  SaidRevoked(t) <=> (Clock < r.at + r.ttl * Hz)
      /\ \A j \in Jtis : blacklist[j] # None => blacklist'[j] # None
    ]_vars

C12_Witness ==
  \E t \in Threads :
    /\ pc[t] = "done" /\ call[t].op = "is_token_blacklisted"
    /\ Val(ret[t]).ok /\ Val(ret[t]).v = "False"
    /\ hist.revoked[call[t].jti] # None /\ blacklist[call[t].jti] # None
    /\ Val(hist.revoked[call[t].jti]).ttl = 1

\* C13: with a client and no failing command, a request that presents a
\* credential for which logout has answered 200, at a time when the credential
\* has not expired, is answered 401 revoked.
C13_LoggedOutIsRejected ==
  [][ \A t \in Threads :
        (Checking(t) /\ call[t].op = "request" /\ Answered(t) /\ Val(ret'[t]).ok
           /\ hist.loggedout[call[t].jti] = "yes"
           /\ Clock < call[t].exp * Hz)
          => Val(ret'[t]).v = "401 revoked"
    ]_vars

\* C14: a blacklist operation that finds no client or whose command fails
\* returns without raising, changes no entry and answers not revoked (the
\* request is let through); a check answers revoked only for a jti that was
\* written and whose entry is still there.
C14_BlacklistFailsOpen ==
  [][ \A t \in Threads :
        /\ (Revoking(t) /\ Answered(t)) =>
             /\ Val(ret'[t]).v \in {"True", "False", "200"}
             /\ ~Val(ret'[t]).ok =>
                  blacklist' = blacklist /\ Val(ret'[t]).v # "True"
        /\ (Checking(t) /\ Answered(t)) =>
             /\ Val(ret'[t]).v \in {"True", "False", "200", "401 revoked"}
             /\ ~Val(ret'[t]).ok => ~SaidRevoked(t)
             /\ SaidRevoked(t) =>
                  /\ hist.revoked[call[t].jti] # None
                  /\ Live(blacklist[call[t].jti])
             /\ blacklist' = blacklist
    ]_vars

C14_Witness ==
  \E t \in Threads :
    /\ pc[t] = "done" /\ call[t].op = "request"
    /\ ~Val(ret[t]).ok /\ Val(ret[t]).v = "200"
    /\ Live(blacklist[call[t].jti])

\* C15: counted from the call that found no counter, with a client, no failing
\* command and the counter alive throughout, the k-th call returns allowed with
\* remaining = limit - k and leaves the count at k when k <= limit, and returns
\* denied with remaining 0 and leaves the count at limit when k > limit.
C15_KthCall ==
  \A t \in Threads :
    (pc[t] = "done" /\ call[t].op = "check_rate_limit" /\ hist.clean
       /\ RateLive(rate[call[t].key]))
      => /\ Val(ret[t]).ok
         /\ Val(rate[call[t].key]).until # None
         /\ IF hist.calls <= hist.limit
            THEN /\ Val(ret[t]).v = [allowed |-> TRUE,
                                     remaining |-> hist.limit - hist.calls]
                 /\ Val(rate[call[t].key]).count = hist.calls
            ELSE /\ Val(ret[t]).v = [allowed |-> FALSE, remaining |-> 0]
                 /\ Val(rate[call[t].key]).count = hist.limit

C15_Witness ==
  \E t \in Threads :
    /\ pc[t] = "done" /\ call[t].op = "check_rate_limit" /\ hist.clean
    /\ RateLive(rate[call[t].key])
    /\ hist.limit = 2 /\ hist.calls = 3
    /\ Val(ret[t]).v = [allowed |-> FALSE, remaining |-> 0]

\* C16: a call that finds no client, or one of whose commands fails, returns
\* allowed = true with remaining = limit, also when the counter stands at the
\* limit; every call returns a pair.
C16_RateFailsOpen ==
  \A t \in Threads :
    (pc[t] = "done" /\ call[t].op = "check_rate_limit")
      => /\ Val(ret[t]).v \in [allowed : BOOLEAN, remaining : 0..MaxLimit]
         /\ ~Val(ret[t]).ok =>
              Val(ret[t]).v = [allowed |-> TRUE, remaining |-> call[t].limit]

C16_Witness ==
  \E t \in Threads :
    /\ pc[t] = "done" /\ call[t].op = "check_rate_limit"
    /\ ~Val(ret[t]).ok /\ client[t] = None /\ connection_attempted
    /\ RateLive(rate[call[t].key])
    /\ Val(rate[call[t].key]).count >= call[t].limit
    /\ Val(ret[t]).v.allowed
\* the user a read of token k is due: the stored one while no delete has
\* followed the store and its ttl has not elapsed
Due(k) ==
  LET s == hist.stored[k] IN
    IF s # None /\ ~Val(s).gone /\ Clock < Val(s).at + Val(s).ttl * Hz
    THEN Val(s).user ELSE "None"

\* C17: with the cache reachable, every get_reset_token_user that completes
\* without a cache error returns the stored user while the token has been
\* neither deleted nor expired and None otherwise (so None after a successful
\* invalidate even inside the TTL), and the read leaves the reset store as it
\* was.
C17_ResetTokenLifecycle ==
  [][\A t \in Threads :
       (/\ call[t].op = "get_reset_token_user"
        /\ Answered(t)
        /\ Val(ret'[t]).ok)
       => /\ Val(ret'[t]).v = Due(call[t].token)
          /\ reset' = reset]_vars

\* a read inside the TTL answers None after a successful invalidate
C17_Witness ==
  \E t \in Threads :
    /\ pc[t] = "done"
    /\ call[t].op = "get_reset_token_user"
    /\ Val(ret[t]).ok
    /\ Val(ret[t]).v = "None"
    /\ LET s == hist.stored[call[t].token] IN
         s # None /\ Val(s).gone /\ Clock < Val(s).at + Val(s).ttl * Hz

\* C18: the password commits made by reset_password requests under one stored
\* token number at most one.
C18_SingleRedemption ==
  \A k \in Tokens : hist.redeemed[k] <= 1

\* C19: _connect has run at most once.
C19_ConnectAtMostOnce == connects <= 1

\* the attempt to connect is over and has left no client behind
Failed ==
  /\ connection_attempted
  /\ instance = None
  /\ \A q \in Threads : pc[q] \notin {"connect", "from_url", "ping"}

\* what an operation answers without a cache
Degraded(t) ==
  CASE call[t].op = "get_pending_clicks" -> <<>>
    [] call[t].op = "get_reset_token_user" -> "None"
    [] call[t].op = "check_rate_limit" -> Allowed(t)
    [] OTHER -> "False"

\* C20: once connection establishment has failed, every step of a sub-store
\* operation is taken without a client, returns the operation's degraded value
\* (False, None, an empty list, allowed) and leaves the cache as it was.
C20_FailedConnectDegrades ==
  [][\A t \in Threads :
       (Failed /\ pc[t] = "call" /\ pc'[t] # "call")
       => /\ client[t] = None
          /\ pc'[t] = "done"
          /\ Val(ret'[t]).v = Degraded(t)
          /\ UNCHANGED << blacklist, reset, rate, queue >>]_vars

\* accessible as the specification words it: active, and expires_at null or
\* later than t
StatedAccessible(l, t) ==
  l.is_active /\ (l.expires_at = None \/ Val(l.expires_at) > t)

\* C22: at every instant, Link.is_accessible, the durable-record check and the
\* cache-hit check find a record accessible exactly when it is active and
\* expires_at is null or later than now, and the expiry check of the cache read
\* finds a snapshot expired exactly when expires_at is set and not later than
\* now; at the instant now = expires_at the record is not accessible.
C22_AccessibleBoundary ==
  /\ hist.accessible # None
       => Val(hist.accessible) = StatedAccessible(hist.link, hist.t)
  /\ hist.db # None
       => (Val(hist.db) = "ok") = StatedAccessible(hist.link, hist.t)
  /\ hist.hit # None
       => (Val(hist.hit) = "ok") = StatedAccessible(hist.link, hist.t)
  /\ hist.gcl # None
       => Val(hist.gcl) = (/\ hist.link.expires_at # None
                           /\ ~(Val(hist.link.expires_at) > hist.t))

\* positions of a resolve call that holds a cached snapshot
Holding == {"gcl_check", "gcl_del", "hit", "hit_del", "hit_click"}

\* C23: a resolve call that found a cache entry for its slug decides from the
\* snapshot alone and never goes on to read the durable store: an inactive
\* snapshot is answered Gone(disabled) with the cache left as it is, an expired
\* one Gone(expired) with the entry deleted, any other a redirect to the cached
\* original_url.
C23_SnapshotDecides ==
  [][\A p \in Resolvers :
       (pc[p] \in Holding /\ pc'[p] # pc[p])
       => /\ pc'[p] # "query"
          /\ pc'[p] = "done" =>
               LET d == Val(link_data[p]) IN
                 IF ~d.is_active
                 THEN /\ Val(response'[p]) = Gone("This link has been disabled")
                      /\ cache' = cache
                 ELSE IF CachedExpired(d, now)
                 THEN /\ Val(response'[p]) = Gone("This link has expired")
                      /\ cache'[slug[p]] = None
                 ELSE Val(response'[p]) = Redirect(d.original_url)]_vars

\* C24: on the cache-miss path the durable row decides in this order: no row
\* gives 404, an inactive row Gone(disabled) whether or not it is expired too,
\* an expired row Gone(expired), and only an accessible row goes on to the
\* write-back; the write-back stores the projection of that row, its failure
\* changes nothing of what follows, and a call that answers 404 or 410 from
\* the durable row writes nothing to the cache.
C24_MissOrder ==
  [][\A p \in Resolvers :
       /\ (pc[p] = "query" /\ pc'[p] # "query" /\ ~log'[p].dbFault)
          => LET row == db[slug[p]] IN
               /\ cache' = cache
               /\ IF row = None
                  THEN pc'[p] = "done"
                       /\ Val(response'[p]) = Error(404, "Link not found")
                  ELSE IF ~Val(row).is_active
                  THEN pc'[p] = "done"
                       /\ Val(response'[p]) = Gone("This link has been disabled")
                  ELSE IF IsExpired(Val(row), now)
                  THEN pc'[p] = "done"
                       /\ Val(response'[p]) = Gone("This link has expired")
                  ELSE pc'[p] = "cache_link" /\ link'[p] = row
       /\ (pc[p] = "cache_link" /\ pc'[p] # "cache_link")
          => /\ pc'[p] = "click"
             /\ link'[p] = link[p]
             /\ \A k \in Keys :
                  cache'[k] # cache[k]
                    => /\ k = slug[p]
                       /\ cache'[k] # None
                       /\ Val(cache'[k]).value = ToCacheDict(Val(link[p]))
                       /\ Val(link[p]).is_active
       /\ (cache' # cache /\ pc'[p] # pc[p] /\ pc[p] \notin Holding)
          => pc[p] = "cache_link"]_vars

\* a row that is inactive and expired as well is answered Gone(disabled)
C24_Witness ==
  \E p \in Resolvers :
    /\ Done(p) /\ log[p].query = 1
    /\ db[slug[p]] # None
    /\ ~Val(db[slug[p]]).is_active
    /\ IsExpired(Val(db[slug[p]]), now)
    /\ Resp(p) = Gone("This link has been disabled")
    /\ cache[slug[p]] = None

\* C21: a write-back that finds an entry of the same link already stored
\* leaves the stored value identical to it; the entry's TTL starts again.
C21_WriteBackIdempotent ==
  [][\A p \in Resolvers :
       (/\ log'[p].setex = log[p].setex + 1
        /\ ~log'[p].cacheFault
        /\ cache[slug[p]] # None)
       => /\ cache'[slug[p]] # None
          /\ Val(cache'[slug[p]]).value = Val(cache[slug[p]]).value
          /\ Val(cache'[slug[p]]).until = now + CACHE_TTL_LINK]_vars

\* two calls in flight have both written the entry back
C21_Witness ==
  /\ \A p \in Resolvers : log[p].setex = 1 /\ ~log[p].cacheFault
  /\ cache[Normalize(MissRaw)] # None
  /\ Val(cache[Normalize(MissRaw)]).value = ToCacheDict(MissRow)

\* C25: every call that missed the cache for the accessible slug and whose
\* durable lookup did not fail redirects to the record's original_url, and
\* when no call is in flight any more a call that wrote the entry back has
\* left the cache holding the record's projection (while the cache TTL cannot
\* have elapsed).
C25_ConcurrentMisses ==
  \A p \in Resolvers :
    /\ (Done(p) /\ world[p] = "cold" /\ ~log[p].dbFault)
         => Resp(p) = Redirect(MissRow.original_url)
    /\ (/\ Done(p) /\ world[p] = "cold"
        /\ log[p].setex = 1 /\ ~log[p].cacheFault
        /\ now < CACHE_TTL_LINK
        /\ \A q \in Resolvers : ~Running(q))
         => /\ cache[slug[p]] # None
            /\ Val(cache[slug[p]]).value = ToCacheDict(MissRow)

\* C26: when all click threads have ended, the link's clicks is higher than
\* it started (at 0) by the number of threads whose commit succeeded.
C26_EveryCommitCounts ==
  \A k \in Keys :
    (tasks = EmptyBag /\ db[k] # None) => Val(db[k]).clicks = hist.commits

\* C27: no step takes the committed clicks of a link below its previous value.
C27_ClicksNeverDecrease ==
  [][\A k \in Keys :
       (db[k] # None /\ db'[k] # None)
         => Val(db'[k]).clicks >= Val(db[k]).clicks]_vars

\* C28: a step of a click thread leaves original_url, is_active and expires_at
\* of every row as the handlers last committed them, also when a handler has
\* committed since the thread loaded the row, and creates no row.
C28_ClickTouchesOnlyClicks ==
  [][(tasks' # tasks /\ pc' = pc)
     => \A k \in Keys :
          IF db[k] = None THEN db'[k] = None
          ELSE /\ db'[k] # None
               /\ [Val(db'[k]) EXCEPT !.clicks = 0] = [Val(db[k]) EXCEPT !.clicks = 0]]_vars

\* the one thread of the run loaded an active row and its commit found the row
\* disabled in between; the row is still disabled with the click counted
C28_Witness ==
  /\ hist.started = 1 /\ hist.commits = 1 /\ hist.stale
  /\ db[Normalize(MissRaw)] # None
  /\ ~Val(db[Normalize(MissRaw)]).is_active
  /\ Val(db[Normalize(MissRaw)]).clicks = 1

\* C29: while a counter is there, its count is the number of calls that were
\* allowed since the key last had no counter, and that number is at most limit.
C29_CountIsAllowedCalls ==
  \A k \in RateKeys :
    RateLive(rate[k])
      => /\ Val(rate[k]).count = hist.allowed
         /\ hist.allowed <= hist.limit

\* C30: every counter in the cache has an expiry, at most one window away.
C30_CounterHasTtl ==
  \A k \in RateKeys :
    RateLive(rate[k])
      => /\ Val(rate[k]).until # None
         /\ Val(Val(rate[k]).until) <= Clock + hist.window * Hz

\* C31: the window is fixed by the first request: a step that leaves a live
\* counter live keeps its expiry, a step that creates a counter gives it the
\* expiry one window after the creation, and a call is denied only by a counter
\* that has such an expiry (so the denial ends when the window has elapsed)
C31_WindowIsFixed ==
  [][\A k \in RateKeys :
       /\ (RateLive(rate[k]) /\ rate'[k] # None /\ rate'[k] # rate[k])
            => \/ Val(rate'[k]).until = Val(rate[k]).until
               \/ Val(rate'[k]).count = 1
       /\ (rate'[k] # rate[k] /\ rate'[k] # None /\ Val(rate'[k]).count = 1)
            => Val(rate'[k]).until = Some(Clock + hist.window * Hz)
       /\ \A t \in Threads :
            (/\ Limiting(t, "rate_seen") /\ call[t].key = k
             /\ pc'[t] = "done" /\ ~Val(ret'[t]).v.allowed)
              => rate[k] # None /\ Val(rate[k]).until # None]_vars

\* C32: a logout that found a client and whose connection did not fail leaves
\* a blacklist entry for the credential's jti that ends exactly at the
\* credential's exp: there as long as the credential is valid, gone after it
C32_LogoutEntryEndsAtExp ==
  [][ \A t \in Threads :
        (Revoking(t) /\ call[t].op = "logout" /\ Answered(t) /\ Val(ret'[t]).ok)
          => /\ blacklist'[call[t].jti] # None
             /\ Val(blacklist'[call[t].jti]).until = call[t].exp * Hz
    ]_vars

\* C33: a reset_password execution that resolved the token and committed the
\* new password returns with the token no longer resolvable
C33_RedeemedTokenIsGone ==
  [][ \A t \in Threads :
        (pc[t] = "redeem_invalidate" /\ pc'[t] = "done")
          => ~Live(reset'[call[t].token])
    ]_vars

\* C34: no key of the reserved-word set has a link-cache entry, and none has a
\* durable row
C34_NoReservedCached ==
  \A k \in Keys : k \in RESERVED_SLUGS => cache[k] = None /\ db[k] = None

\* a reserved word was asked for and answered NotFound while the cache holds
\* entries written by a handler's hook and by a resolve
C34_Witness ==
  /\ \E p \in Resolvers :
       /\ pc[p] = "done" /\ slug[p] \in Keys \cap RESERVED_SLUGS
       /\ Val(response[p]).status = 404
  /\ \E k \in Keys : cache[k] # None
  /\ \E k \in Keys : db[k] # None

\* C35: an operation of one sub-store leaves every key of the other sub-stores
\* as it was, whatever its argument
C35_NamespacesAreDisjoint ==
  [][ \A n \in Namespaces :
        n # hist'.ns => \A k \in NsKeys(n) : cache'[k] = cache[k]
    ]_vars

\* every sub-store holds an entry, written with an argument that spells the
\* key of another sub-store
C35_Witness ==
  /\ hist.ns = "rate"
  /\ cache[RateKey(<<"l","i","n","k",":","x">>)] # None
  /\ cache[LinkKey(<<"x">>)] # None
  /\ cache[BlacklistKey(<<"l","i","n","k",":","x">>)] # None
  /\ cache[ResetKey(<<"x">>)] # None
  /\ cache[ClickQueueKey] # None

\* C36: when no handler is in flight, the cache entry of a slug is absent or
\* is the projection of the slug's durable row
C36_NoStaleEntry ==
  (\A p \in Resolvers \cup Mutators : pc[p] = "idle")
    => \A k \in Keys :
         \/ cache[k] = None
         \/ db[k] # None /\ Val(cache[k]).value = ToCacheDict(Val(db[k]))

\* C37: with the cache reachable and requests following one another, a resolve
\* answers by the durable row as the last completed mutation left it:
\* NotFound for a deleted link, Gone(disabled) for a disabled one, and a
\* redirect for an enabled, unexpired one whose entry a handler's hook wrote
C37_NextResolveSeesMutation ==
  ~interleave =>
    \A p \in Resolvers :
      Done(p) =>
        LET r == db[slug[p]] IN
          /\ r = None => Resp(p) = Error(404, "Link not found")
          /\ (r # None /\ ~Val(r).is_active)
               => Resp(p) = Gone("This link has been disabled")
          /\ (r # None /\ Val(r).is_active /\ ~IsExpired(Val(r), now)
                /\ world[p] = "hit")
               => Resp(p) = Redirect(Val(r).original_url)

\* C38: nothing leaves the click queue unseen: a get_pending_clicks call
\* returns every slug it has popped, in the order it popped them, and a slug
\* leaves the queue only from its head into the batch of the call that pops it
C38_QueueLosesNothing ==
  [][ /\ \A t \in Threads :
           (Draining(t) /\ pc'[t] = "done") => Val(ret'[t]).v = call[t].clicks
      /\ (Len(queue') < Len(queue))
           => \E t \in Threads :
                /\ Draining(t)
                /\ queue' = Tail(queue)
                /\ call'[t].clicks = Append(call[t].clicks, Head(queue))
    ]_vars

\* C39: once connection establishment is over, every RedisService object that
\* a thread has constructed holds the outcome of the attempt: the client when
\* it succeeded, no client when it failed
C39_InstancesShareOutcome ==
  (connection_attempted
     /\ \A q \in Threads : pc[q] \notin {"connect", "from_url", "ping"})
    => \A t \in Threads : pc[t] = "call" => client[t] = instance

\* C40: a reset email is sent only for a token that is stored: at the step
\* in which forgot_password sends the email the token resolves to the user
C40_EmailedTokenIsStored ==
  [][ \A t \in Threads :
        (pc[t] = "send_email" /\ pc'[t] = "done" /\ Val(ret'[t]).v = "200 sent")
          => /\ Live(reset[call[t].token])
             /\ Val(reset[call[t].token]).user = call[t].user
    ]_vars

====
